---- MODULE Spec2Model ----
(***************************************************************************)
(* Model of the volchara renderer: the frame loop of Renderer::drawFrame,  *)
(* the GPU queue it feeds, the swap chain and its per-image attachments,   *)
(* the scene graph with its packed vertex/index buffers and the light      *)
(* buffer.                                                                 *)
(***************************************************************************)
EXTENDS Integers, Sequences, FiniteSets, TLC

(* ------------------------------ bounds -------------------------------- *)

\* Number of scene nodes the application owns.
NumNodes == 3
\* Largest clock value the model lets the wall clock reach (in ticks).
MaxTime == 6
\* Clock ticks in one target frame interval (1 / MAX_FRAMERATE seconds).
TicksPerFrame == 2
\* Number of images of a swap chain (minImageCount + 1).
ImageCount == 3
\* Number of swap-chain rebuilds the environment may provoke.
MaxRecreate == 2
\* Largest framebuffer extent the window reports (0 is a minimised window).
MaxExtent == 2
\* Number of distinct allocation handles the allocator hands out in turn.
NumHandles == 3
\* Largest number of child links the application sets up.
MaxLinks == 2
\* Largest number of point lights the application adds.
MaxLights == 2

\* Number of texture loads for which the application's choice of image file is varied.
MaxVariedTextures == 3

\* Number of addLight calls for which the light the application passes is varied.
MaxVariedLights == 2

\* Largest cursor coordinate the window reports.
MaxCursor == 2
\* Number of keys of the keyboard the user touches.
MaxInputKeys == 3
\* Entries the list of a flatten loop may hold before the model stops following it.
MaxFlatten == 12

\* Largest number of frame callbacks registered on one node.
MaxCallbacks == 3

(* ------------------------- program constants -------------------------- *)

MAX_FRAMES_IN_FLIGHT == 2
MAX_FRAMERATE == 60

Slots == 0 .. (MAX_FRAMES_IN_FLIGHT - 1)
Nodes == 1 .. NumNodes
Images == 0 .. (ImageCount - 1)

\* vk::Result values of acquireNextImage and presentKHR that the frame loop meets.
AcquireResults == {"eSuccess", "eSuboptimalKHR", "eErrorOutOfDateKHR"}
PresentResults == {"eSuccess", "eSuboptimalKHR", "eErrorOutOfDateKHR"}

\* GLFW keys the renderer itself looks at.
Keys == {"RIGHT_CONTROL", "1", "2", "3", "4", "5", "C", "ESCAPE"}
DebugFlagBits == {"COLOR_NORMALS", "COLOR_DEPTH", "COLOR_WIREFRAME", "COLOR_UNLIT"}

VARIABLES
    pc,                     \* position of the main thread in mainLoop / drawFrame
    dispatchIndex,          \* loop variable i of the callback loop of drawFrame
    currentFrame,           \* index of the frame slot in use
    inFlightFences,         \* slot -> fence signalled
    imageAvailableSemaphores, \* slot -> semaphore carries a signal
    gpuQueue,               \* submitted frames the GPU has not finished, oldest first
    commandBuffers,         \* slot -> what the slot's command buffer holds
    uniformBuffers,         \* slot -> what the slot's uniform buffer holds
    now,                    \* std::chrono::steady_clock::now()
    lastFrameTime,
    framebufferResized,
    windowExtent,           \* glfwGetFramebufferSize
    nextImagePair,          \* result and image index of acquireNextImage
    presentResult,          \* result of presentKHR in the running drawFrame call
    swapChain,              \* generation and extent of the swap chain
    swapChainImageViews,
    depthBuffers,
    emissiveBuffers,
    normalBuffers,
    intermediateColorBuffers,
    swapChainFramebuffers,
    objects,                \* root list of the renderer
    children,               \* node -> child list
    parent,                 \* node -> Object::parent, 0 for nullptr
    vertices,               \* node -> number of vertices
    indices,                \* node -> index list
    transparent,            \* node -> transparent flag
    transform,              \* node -> translation and scaling of its Transform
    vertexBuffer,           \* handle and content of the packed vertex buffer
    indexBuffer,            \* handle and content of the packed index buffer
    stagingBuffer,          \* handle and size of the staging buffer
    lights,                 \* CPU copy of the light buffer
    ssboBuffer,             \* GPU light buffer
    lightCalls,             \* history: the arguments of setAmbientLight and addLight
    textures,               \* texture list of the renderer, by the data loaded
    textureDescriptors,     \* array elements of the texture binding written so far
    textureReturns,         \* history: the indices createTextureImage returned to callers
    frameCallbacks,         \* node -> number of registered frame callbacks
    invoked,                \* node -> callbacks invoked in the running dispatch pass
    passStart,              \* history: the scene when the running dispatch pass began
    danglingVisit,          \* a callback loop read its vector through a stale iterator
    cursorDelivered,        \* history: node -> sum of the cursor offsets handed to it
    secondsDelivered,       \* history: node -> sum of the passedSeconds handed to it,
                            \* or -1 where the sums are not recorded
    frameEvents,            \* history: what the running drawFrame call has done so far
    pressedKeys,
    cursorOffset,
    prevOffset,             \* cursor position of the last cursor event
    heldKeys,               \* history: keys whose last event was a press
    cursorMotion,           \* history: sum of the motion of all cursor events
    debugFeatures,
    debugFlags,             \* pushConstants.debugFlags
    shouldExit,
    renderPassRun,          \* the GPU's progress through one instance of the render pass
    oneShot,                \* the running createTextureImage / transitionImageLayout call
    lastDelObject,          \* history: the last delObject call main made and what it did
    flattenRun              \* the running flatten loop: the list allObjects, the index i
                            \* and, as history, how deep below its root each entry lies

schedVars == <<pc, dispatchIndex, currentFrame, inFlightFences, imageAvailableSemaphores,
               gpuQueue, commandBuffers, uniformBuffers, now, lastFrameTime,
               nextImagePair, presentResult, shouldExit>>
swapVars == <<framebufferResized, windowExtent, swapChain, swapChainImageViews, depthBuffers,
              emissiveBuffers, normalBuffers, intermediateColorBuffers, swapChainFramebuffers>>
meshVars == <<vertices, indices, transparent, transform>>
sceneVars == <<objects, children, parent, vertexBuffer, indexBuffer, stagingBuffer>>
lightVars == <<lights, ssboBuffer, lightCalls>>
inputVars == <<pressedKeys, cursorOffset, prevOffset, debugFeatures, debugFlags, heldKeys,
               cursorMotion>>
textureVars == <<textures, textureDescriptors, textureReturns>>
callbackVars == <<frameCallbacks, invoked, passStart, danglingVisit, cursorDelivered,
                  secondsDelivered, frameEvents>>
gpuVars == <<renderPassRun, oneShot, lastDelObject, flattenRun>>

vars == <<schedVars, swapVars, meshVars, sceneVars, lightVars, inputVars, textureVars, gpuVars,
          callbackVars>>

(* --------------------------- pure helpers ---------------------------- *)

\* sizeof(uint32_t) and sizeof(volchara::Vertex) (11 floats).
SizeofIndex == 4
SizeofVertex == 44

\* The children are never appended: the list stays the roots.
FlattenFromNoChildren(all, i, ch) == all

RECURSIVE FlattenFromDepthFirst(_, _, _)
\* The children are inserted right behind their parent instead of appended at the end.
FlattenFromDepthFirst(all, i, ch) ==
    IF i > Len(all) THEN all
    ELSE FlattenFromDepthFirst(
             SubSeq(all, 1, i) \o ch[all[i]] \o SubSeq(all, i + 1, Len(all)), i + 1, ch)

RECURSIVE FlattenFrom(_, _, _)
\* The loop "for (i = 0; i < allObjects.size(); i++) push_back every child of
\* allObjects[i]" run from position i (1-based here) on the list all.
FlattenFrom(all, i, ch) ==
    IF i > Len(all) THEN all
    ELSE FlattenFrom(all \o ch[all[i]], i + 1, ch)

\* std::vector<Object*> allObjects of putObjectsToBuffer and recordCommandBuffer.
Flatten(objs, ch) == FlattenFrom(objs, 1, ch)

\* The vertices of node n, each named by its node and its position in the node.
NodeVertices(n, vs) == [k \in 1 .. vs[n] |-> <<n, k - 1>>]

\* The std::transform of putObjectsToBuffer: every index plus indexOffset.
RebaseIndices(idx, indexOffset) == [k \in 1 .. Len(idx) |-> idx[k] + indexOffset]

\* The running offset grows by the index count of the node instead of its vertex count.
NextIndexOffsetByIndexCount(indexOffset, n, vs, ids) == indexOffset + Len(ids[n])

\* indexOffset += obj->vertices.size().
NextIndexOffset(indexOffset, n, vs, ids) == indexOffset + vs[n]

\* An object with vertices takes part in the packing, one without is passed over.
PackTakesObject(n, vs) == vs[n] > 0

RECURSIVE PackFrom(_, _, _, _, _)
\* The packing loop of putObjectsToBuffer from position i of allObjects; acc holds the
\* vertices, the indices, the node each index came from and indexOffset.
PackFrom(all, i, vs, ids, acc) ==
    IF i > Len(all) THEN acc
    ELSE LET n == all[i]
         IN IF PackTakesObject(n, vs)
            THEN PackFrom(all, i + 1, vs, ids,
                     [vertices |-> acc.vertices \o NodeVertices(n, vs),
                      indices |-> acc.indices \o RebaseIndices(ids[n], acc.indexOffset),
                      owner |-> acc.owner \o [k \in 1 .. Len(ids[n]) |-> n],
                      indexOffset |-> NextIndexOffset(acc.indexOffset, n, vs, ids)])
            ELSE PackFrom(all, i + 1, vs, ids, acc)

\* The vertices and indices putObjectsToBuffer collects for a root list.
Pack(objs, ch, vs, ids) ==
    PackFrom(Flatten(objs, ch), 1, vs, ids,
             [vertices |-> <<>>, indices |-> <<>>, owner |-> <<>>, indexOffset |-> 0])

\* allocator.createBuffer: the next allocation handle after h.
NextHandle(h) == (h + 1) % NumHandles

\* Transform::modelMatrix: translationMatrix * rotationMatrix * scaleMatrix of the
\* transform's own fields, as the map x -> scale * x + offset (rotations left out).
ModelMatrix(t) == [scale |-> t.scaling, offset |-> t.translation]

RECURSIVE DrawsFromEveryNode(_, _, _, _, _, _)
\* No node is passed over: every node is drawn in both draw loops.
DrawsFromEveryNode(all, i, ids, tr, wanted, alreadyDrawn) ==
    IF i > Len(all) THEN <<>>
    ELSE LET n == all[i]
         IN <<[node |-> n, subpass |-> IF wanted THEN 2 ELSE 0,
               model |-> ModelMatrix(transform[n]),
               indexCount |-> Len(ids[n]), firstIndex |-> alreadyDrawn]>>
            \o DrawsFromEveryNode(all, i + 1, ids, tr, wanted, alreadyDrawn + Len(ids[n]))

RECURSIVE DrawsFrom(_, _, _, _, _, _)
\* One draw loop of recordCommandBuffer: the nodes whose transparent flag is not
\* wanted are passed over, alreadyDrawn grows by indices.size() for every node.
DrawsFrom(all, i, ids, tr, wanted, alreadyDrawn) ==
    IF i > Len(all) THEN <<>>
    ELSE LET n == all[i]
             rest == DrawsFrom(all, i + 1, ids, tr, wanted, alreadyDrawn + Len(ids[n]))
         IN IF tr[n] # wanted THEN rest
            ELSE <<[node |-> n, subpass |-> IF wanted THEN 2 ELSE 0,
                    model |-> ModelMatrix(transform[n]),
                    indexCount |-> Len(ids[n]), firstIndex |-> alreadyDrawn]>> \o rest

\* The draw commands recordCommandBuffer records: the opaque draws, the full-screen
\* triangle of the lighting subpass, the transparent draws.
RecordedDraws(objs, ch, ids, tr) ==
    LET all == Flatten(objs, ch)
    IN DrawsFrom(all, 1, ids, tr, FALSE, 0)
       \o <<[node |-> 0, subpass |-> 1, indexCount |-> 3, firstIndex |-> 0]>>
       \o DrawsFrom(all, 1, ids, tr, TRUE, 0)

\* c is reachable from p over child links.
RECURSIVE Reaches(_, _, _, _)
Reaches(p, c, ch, fuel) ==
    \/ p = c
    \/ /\ fuel > 0
       /\ \E k \in 1 .. Len(ch[p]) : Reaches(ch[p][k], c, ch, fuel - 1)

(* --------------------------- initial state ---------------------------- *)

\* Size the staging, vertex and index buffers are created with by initVulkan.
InitialBufferSize == 8388608
\* GPULightsBuffer::lights has this many entries.
LightCapacity == 32

\* An image created by createImage for swap-chain generation g with the extent e.
NewImage(g, e) == [gen |-> g, extent |-> e]

\* createImageViews: one view per swap-chain image of generation g.
NewImageViews(g) == [i \in 1 .. ImageCount |-> [gen |-> g, image |-> i - 1]]

\* The push_back loop of createDepthResources, createEmissiveResources,
\* createNormalResources and createIntermediateColorResources: one new image per
\* swap-chain image view is appended to the list.
PushImages(list, g, e) == list \o [i \in 1 .. ImageCount |-> NewImage(g, e)]

\* createFramebuffers: framebuffer i takes entry i of every attachment list.
MakeFramebuffers(color, emissive, normal, depth, views, e) ==
    [i \in 1 .. Len(views) |->
        [color |-> color[i], emissive |-> emissive[i], normal |-> normal[i],
         depth |-> depth[i], view |-> views[i], extent |-> e]]

\* createDescriptorSets: descriptorSetsUBO and descriptorSetsLightSubpass are each
\* allocated from a vector of MAX_FRAMES_IN_FLIGHT layouts.
DescriptorSetCount == MAX_FRAMES_IN_FLIGHT

\* createCommandBuffers: commandBufferCount = MAX_FRAMES_IN_FLIGHT.
CommandBufferCount == MAX_FRAMES_IN_FLIGHT

\* A command buffer nothing was recorded into.
EmptyCommandBuffer ==
    [recorded |-> FALSE, image |-> 0, descriptorSetUBO |-> 0,
     descriptorSetLightSubpass |-> 0, vertexBuffer |-> 0, indexBuffer |-> 0,
     draws |-> <<>>]

\* No render pass instance is running.
NoRenderPassRun == [active |-> FALSE, image |-> 0, executed |-> {}, hazards |-> {}]

\* No createTextureImage or transitionImageLayout call is running.
NoOneShot ==
    [step |-> "idle", next |-> "idle", path |-> "", layout |-> "eUndefined",
     newLayout |-> "eUndefined", pending |-> FALSE, log |-> <<>>]

\* No acquireNextImage result yet in this drawFrame call.
NoImagePair == [result |-> "none", index |-> 0]

\* The light buffer of a fresh renderer: GPULightsBuffer lights {}. ambient is the vec4
\* (colour, brightness); lights holds the entries written so far of the LightCapacity
\* entries of the array, pastEnd what was written behind the array.
EmptyLights == [ambient |-> <<0, 0>>, lightCount |-> 0, lights |-> <<>>, pastEnd |-> <<>>]

\* The sizeof(lights) bytes putLightsToBuffer copies: the header and the array.
LightsImage(l) == [ambient |-> l.ambient, lightCount |-> l.lightCount, lights |-> l.lights]

\* The lights of a fresh renderer, nothing written to the GPU buffer yet.
InitLights ==
    /\ lights = EmptyLights
    /\ ssboBuffer = [written |-> FALSE, content |-> LightsImage(EmptyLights)]
    /\ lightCalls = [ambient |-> <<>>, added |-> <<>>]

\* The frame callbacks the application registers before run(): two on node 1, one on
\* every other node.
DefaultCallbacks == [n \in Nodes |-> IF n = 1 THEN 2 ELSE 1]

\* No dispatch pass is running.
NoPass ==
    [running |-> FALSE, objects |-> <<>>, children |-> <<>>, frameCallbacks |-> <<>>,
     passedSeconds |-> 0]

\* The meshes of the application's nodes when a claim does not vary them: a triangle,
\* a two-vertex strip with four indices, and a grouping node without mesh.
DefaultVertices == [n \in Nodes |-> IF n = 1 THEN 3 ELSE IF n = 2 THEN 2 ELSE 0]
DefaultIndices ==
    [n \in Nodes |-> IF n = 1 THEN <<0, 1, 2>> ELSE IF n = 2 THEN <<0, 1, 1, 0>> ELSE <<>>]

\* The transforms of the application's nodes: node 1 moved by (1, 0), node 2 by (0, 1),
\* every other node at the origin and scaled by 2.
DefaultTransforms ==
    [n \in Nodes |-> IF n = 1 THEN [translation |-> <<1, 0>>, scaling |-> 1]
                     ELSE IF n = 2 THEN [translation |-> <<0, 1>>, scaling |-> 1]
                     ELSE [translation |-> <<0, 0>>, scaling |-> 2]]

\* The parent pointers an application sets along with its child lists
\* (child.parent = &node; node.children.push_back(&child)).
ParentLinks(ch) ==
    [n \in Nodes |->
        IF \E q \in Nodes : \E k \in 1 .. Len(ch[q]) : ch[q][k] = n
        THEN CHOOSE q \in Nodes : \E k \in 1 .. Len(ch[q]) : ch[q][k] = n
        ELSE 0]

\* Renderer::maxTextures: the number of slots of the texture descriptor array.
maxTextures == 64

\* The image files the application loads textures from.
TextureFiles == {"A", "B"}

\* A file that is already loaded is not loaded again.
CreateTextureImageDedup(tex, path) ==
    IF \E k \in 1 .. Len(tex) : tex[k] = path THEN tex ELSE Append(tex, path)

\* Renderer::createTextureImage: textures.push_back(std::move(image)).
CreateTextureImage(tex, path) == Append(tex, path)

\* return textures.size() - 1, taken after the push_back.
CreatedIndex(tex) == Len(tex) - 1

\* The frame loop, the swap chain and the input state after Renderer::Renderer()
\* (initWindow, initVulkan).
InitFrameLoop ==
    /\ pc = "main"
    /\ dispatchIndex = 0
    /\ currentFrame = 0
    /\ inFlightFences = [s \in Slots |-> TRUE]
    /\ imageAvailableSemaphores = [s \in Slots |-> FALSE]
    /\ gpuQueue = <<>>
    /\ commandBuffers = [s \in Slots |-> EmptyCommandBuffer]
    /\ uniformBuffers = [s \in Slots |-> [written |-> FALSE, extent |-> 0]]
    /\ now = 0
    /\ lastFrameTime = 0
    /\ framebufferResized = FALSE
    /\ windowExtent = 1
    /\ nextImagePair = NoImagePair
    /\ presentResult = "none"
    /\ swapChain = [gen |-> 0, extent |-> 1]
    /\ swapChainImageViews = NewImageViews(0)
    /\ depthBuffers = PushImages(<<>>, 0, 1)
    /\ emissiveBuffers = PushImages(<<>>, 0, 1)
    /\ normalBuffers = PushImages(<<>>, 0, 1)
    /\ intermediateColorBuffers = PushImages(<<>>, 0, 1)
    /\ swapChainFramebuffers =
           MakeFramebuffers(PushImages(<<>>, 0, 1), PushImages(<<>>, 0, 1),
                            PushImages(<<>>, 0, 1), PushImages(<<>>, 0, 1),
                            NewImageViews(0), 1)
    /\ pressedKeys = {}
    /\ cursorOffset = 0
    /\ prevOffset = 0
    /\ heldKeys = {}
    /\ cursorMotion = 0
    /\ cursorDelivered = [n \in Nodes |-> 0]
    /\ frameEvents = <<>>
    /\ renderPassRun = NoRenderPassRun
    /\ oneShot = NoOneShot
    /\ lastDelObject = [called |-> FALSE, obj |-> 0, before |-> <<>>, after |-> <<>>,
                        crashed |-> FALSE]
    /\ flattenRun = [running |-> FALSE, all |-> <<>>, i |-> 0, depth |-> <<>>]
    /\ debugFeatures = [culling |-> TRUE, viewMode |-> "OFF"]
    /\ debugFlags = {}
    /\ shouldExit = FALSE
    /\ textures = CreateTextureImage(<<>>, "uv")
    /\ textureDescriptors = {CreatedIndex(textures)}
    /\ textureReturns = <<>>
    /\ frameCallbacks = DefaultCallbacks
    /\ invoked = [n \in Nodes |-> <<>>]
    /\ passStart = NoPass
    /\ danglingVisit = FALSE

\* The scene and the buffers of a renderer nothing was added to: the buffers are the
\* ones initVulkan creates.
InitEmptyScene ==
    /\ objects = <<>>
    /\ children = [n \in Nodes |-> <<>>]
    /\ parent = ParentLinks(children)
    /\ vertexBuffer = [handle |-> 0, size |-> InitialBufferSize, vertices |-> <<>>]
    /\ indexBuffer = [handle |-> 0, size |-> InitialBufferSize, indices |-> <<>>, owner |-> <<>>]
    /\ stagingBuffer = [handle |-> 0, size |-> InitialBufferSize]
    /\ InitLights

\* The meshes when a claim does not vary them.
InitDefaultMeshes ==
    /\ vertices = DefaultVertices
    /\ indices = DefaultIndices
    /\ transparent = [n \in Nodes |-> n = 2]
    /\ transform = DefaultTransforms

\* The scene after main has called addObject for the nodes 1 and 2, in this order.
InitTwoRoots ==
    LET packed == Pack(<<1, 2>>, [n \in Nodes |-> <<>>], DefaultVertices, DefaultIndices)
    IN /\ objects = <<1, 2>>
       /\ children = [n \in Nodes |-> <<>>]
       /\ parent = ParentLinks(children)
       /\ vertexBuffer = [handle |-> NextHandle(NextHandle(0)),
                          size |-> Len(packed.vertices) * SizeofVertex,
                          vertices |-> packed.vertices]
       /\ indexBuffer = [handle |-> NextHandle(NextHandle(0)),
                         size |-> Len(packed.indices) * SizeofIndex,
                         indices |-> packed.indices, owner |-> packed.owner]
       /\ stagingBuffer = [handle |-> NextHandle(NextHandle(0)),
                           size |-> Len(packed.indices) * SizeofIndex]
       /\ InitLights

\* The scene after main has called addObject for the node 1 alone.
InitOneRoot ==
    LET packed == Pack(<<1>>, [n \in Nodes |-> <<>>], DefaultVertices, DefaultIndices)
    IN /\ objects = <<1>>
       /\ children = [n \in Nodes |-> <<>>]
       /\ parent = ParentLinks(children)
       /\ vertexBuffer = [handle |-> NextHandle(0),
                          size |-> Len(packed.vertices) * SizeofVertex,
                          vertices |-> packed.vertices]
       /\ indexBuffer = [handle |-> NextHandle(0),
                         size |-> Len(packed.indices) * SizeofIndex,
                         indices |-> packed.indices, owner |-> packed.owner]
       /\ stagingBuffer = [handle |-> NextHandle(0),
                           size |-> Len(packed.indices) * SizeofIndex]
       /\ InitLights

Init ==
    InitFrameLoop /\ InitDefaultMeshes /\ InitTwoRoots
        /\ secondsDelivered = [n \in Nodes |-> -1]

(* ------------------------ renderer operations ------------------------- *)

\* Renderer::putObjectsToBuffer for the root list objs and the child lists ch: the
\* flattened nodes are packed, the staging, vertex and index buffers are created anew
\* (the old allocations are released by the assignment) and filled.
PutObjectsToBuffer(objs, ch) ==
    LET packed == Pack(objs, ch, vertices, indices)
    IN /\ stagingBuffer' = [handle |-> NextHandle(stagingBuffer.handle),
                            size |-> Len(packed.indices) * SizeofIndex]
       /\ vertexBuffer' = [handle |-> NextHandle(vertexBuffer.handle),
                           size |-> Len(packed.vertices) * SizeofVertex,
                           vertices |-> packed.vertices]
       /\ indexBuffer' = [handle |-> NextHandle(indexBuffer.handle),
                          size |-> Len(packed.indices) * SizeofIndex,
                          indices |-> packed.indices,
                          owner |-> packed.owner]

\* Renderer::putLightsToBuffer: the whole CPU light structure is copied to the GPU.
PutLightsToBuffer(l) == ssboBuffer' = [written |-> TRUE, content |-> LightsImage(l)]

\* Renderer::addObject.
AddObject(n) ==
    /\ objects' = Append(objects, n)
    /\ PutObjectsToBuffer(objects', children)
    /\ UNCHANGED <<children, parent, lightVars>>

\* objects.erase(std::find(...)) for an object that is in the list: its first
\* occurrence goes.
EraseFirst(objs, n) ==
    LET k == CHOOSE j \in 1 .. Len(objs) : objs[j] = n /\ \A m \in 1 .. (j - 1) : objs[m] # n
    IN SubSeq(objs, 1, k - 1) \o SubSeq(objs, k + 1, Len(objs))

\* The removed object is detached from its children as well.
DelObjectDetaching(n) ==
    /\ \E j \in 1 .. Len(objects) : objects[j] = n
    /\ objects' = EraseFirst(objects, n)
    /\ children' = [children EXCEPT ![n] = <<>>]
    /\ parent' = [c \in Nodes |-> IF parent[c] = n THEN 0 ELSE parent[c]]
    /\ PutObjectsToBuffer(objects', children')
    /\ UNCHANGED lightVars

\* Renderer::delObject of an object of the root list.
DelObject(n) ==
    /\ \E j \in 1 .. Len(objects) : objects[j] = n
    /\ objects' = EraseFirst(objects, n)
    /\ PutObjectsToBuffer(objects', children)
    /\ UNCHANGED <<children, parent, lightVars>>

\* The application appends c to the child list of p (children.push_back, as
\* addIfCollides of the katamari sample and its main do); the renderer is not told.
AddChild(p, c) ==
    /\ children' = [children EXCEPT ![p] = Append(@, c)]
    /\ parent' = [parent EXCEPT ![c] = p]
    /\ UNCHANGED <<objects, vertexBuffer, indexBuffer, stagingBuffer, lightVars>>

\* The brightness of the light is left out of the colour.
GpuLightUnitBrightness(l) == [position |-> <<l.position, 0>>, color |-> <<l.color, 1>>]

\* glm::vec4(l->transform.translation, 0) and glm::vec4(l->color, l->brightness).
GpuLight(l) == [position |-> <<l.position, 0>>, color |-> <<l.color, l.brightness>>]

\* lights.lights[lights.header.lightCount] = ... : the entry the write lands in, or the
\* memory behind the array when the count has reached its length.
WriteLight(buf, l) ==
    IF buf.lightCount < LightCapacity
    THEN [buf EXCEPT !.lights = Append(@, GpuLight(l))]
    ELSE [buf EXCEPT !.pastEnd = Append(@, GpuLight(l))]

\* Renderer::addLight with the light l.
AddLight(l) ==
    /\ lights' = [WriteLight(lights, l) EXCEPT !.lightCount = @ + 1]
    /\ PutLightsToBuffer(lights')
    /\ lightCalls' = [lightCalls EXCEPT !.added = Append(@, l)]
    /\ UNCHANGED sceneVars

\* Renderer::setAmbientLight with the light data a.
SetAmbientLight(a) ==
    /\ lights' = [lights EXCEPT !.ambient = <<a.color, a.brightness>>]
    /\ PutLightsToBuffer(lights')
    /\ lightCalls' = [lightCalls EXCEPT !.ambient = <<a>>]
    /\ UNCHANGED sceneVars

RECURSIVE LinkCount(_, _)
\* Number of child links over the nodes 1 .. n.
LinkCount(ch, n) == IF n = 0 THEN 0 ELSE Len(ch[n]) + LinkCount(ch, n - 1)

\* The child links the application may add: to a node that has no parent yet
\* (Object::parent is one pointer), never closing a cycle, at most MaxLinks links in all.
LinkAllowed(p, c) ==
    /\ p # c
    /\ \A q \in Nodes : \A k \in 1 .. Len(children[q]) : children[q][k] # c
    /\ ~Reaches(c, p, children, NumNodes)
    /\ LinkCount(children, NumNodes) < MaxLinks

InRoots(n) == \E j \in 1 .. Len(objects) : objects[j] = n

(* ------------------------- main before run() -------------------------- *)

\* main() builds its scene before renderer.run(): addObject.
MainAddObject ==
    /\ pc = "main"
    /\ \E n \in Nodes : ~InRoots(n) /\ AddObject(n)
    /\ UNCHANGED <<schedVars, swapVars, meshVars, inputVars, textureVars, gpuVars, callbackVars>>

\* main() links a child to a parent while it builds its tree, before the roots are
\* handed to the renderer.
MainAddChild ==
    /\ pc = "main"
    /\ objects = <<>>
    /\ \E p \in Nodes, c \in Nodes : LinkAllowed(p, c) /\ AddChild(p, c)
    /\ UNCHANGED <<schedVars, swapVars, meshVars, inputVars, textureVars, gpuVars, callbackVars>>

\* The point lights the application chooses from.
LightChoices == [position : 1 .. 2, color : {1}, brightness : 1 .. 2]

\* The ambient lights the application chooses from.
AmbientChoices == [color : 1 .. 2, brightness : {1}]

\* The lights the application may pass to its next addLight call.
NextLights ==
    IF Len(lightCalls.added) < MaxVariedLights
    THEN LightChoices
    ELSE {[position |-> 1, color |-> 1, brightness |-> 1]}

\* main() calls renderer.addLight; the model follows the calls up to the first one
\* behind the capacity of the light array.
MainAddLight ==
    /\ pc = "main"
    /\ lights.lightCount <= LightCapacity
    /\ \E l \in NextLights : AddLight(l)
    /\ UNCHANGED <<schedVars, swapVars, meshVars, inputVars, textureVars, gpuVars, callbackVars>>

\* main() calls renderer.setAmbientLight with another ambient light than the last.
MainSetAmbientLight ==
    /\ pc = "main"
    /\ \E a \in AmbientChoices :
          /\ lightCalls.ambient # <<a>>
          /\ SetAmbientLight(a)
    /\ UNCHANGED <<schedVars, swapVars, meshVars, inputVars, textureVars, gpuVars, callbackVars>>

\* renderer.run(): mainLoop is entered.
Run ==
    /\ pc = "main"
    /\ pc' = "poll"
    /\ UNCHANGED <<dispatchIndex, currentFrame, inFlightFences, imageAvailableSemaphores,
                   gpuQueue, commandBuffers, uniformBuffers, now, lastFrameTime,
                   nextImagePair, presentResult, shouldExit>>
    /\ UNCHANGED <<swapVars, meshVars, sceneVars, lightVars, inputVars, textureVars, gpuVars, callbackVars>>

(* ----------------------------- the clock ------------------------------ *)

\* The steady clock advances by dt ticks.
ClockAdvance(dt) ==
    /\ now + dt <= MaxTime
    /\ now' = now + dt
    /\ UNCHANGED <<pc, dispatchIndex, currentFrame, inFlightFences, imageAvailableSemaphores,
                   gpuQueue, commandBuffers, uniformBuffers, lastFrameTime,
                   nextImagePair, presentResult, shouldExit>>
    /\ UNCHANGED <<swapVars, meshVars, sceneVars, lightVars, inputVars, textureVars, gpuVars, callbackVars>>

Tick == ClockAdvance(1)

(* ------------------------------ the GPU ------------------------------- *)

\* Slot s has a submission the GPU has not finished.
Pending(s) == \E j \in 1 .. Len(gpuQueue) : gpuQueue[j].slot = s

\* The GPU finishes the oldest submitted frame and signals the fence given to its
\* graphicsQueue.submit.
GpuComplete ==
    /\ gpuQueue # <<>>
    /\ inFlightFences' = [inFlightFences EXCEPT ![Head(gpuQueue).slot] = TRUE]
    /\ gpuQueue' = Tail(gpuQueue)
    /\ UNCHANGED <<pc, dispatchIndex, currentFrame, imageAvailableSemaphores,
                   commandBuffers, uniformBuffers, now, lastFrameTime,
                   nextImagePair, presentResult, shouldExit>>
    /\ UNCHANGED <<swapVars, meshVars, sceneVars, lightVars, inputVars, textureVars, gpuVars, callbackVars>>

(* ------------------------ mainLoop and drawFrame ----------------------- *)

\* glfwPollEvents delivers a framebuffer resize: framebufferResizeCallback. Events
\* are delivered inside glfwPollEvents of mainLoop and inside glfwWaitEvents of
\* recreateSwapChain while the window is minimised.
FramebufferResizeCallback ==
    /\ \/ pc = "poll" /\ swapChain.gen < MaxRecreate
       \/ pc = "recreate" /\ windowExtent = 0
    /\ \E e \in 0 .. MaxExtent : e # windowExtent /\ windowExtent' = e
    /\ framebufferResized' = TRUE
    /\ UNCHANGED <<swapChain, swapChainImageViews, depthBuffers, emissiveBuffers,
                   normalBuffers, intermediateColorBuffers, swapChainFramebuffers>>
    /\ UNCHANGED <<schedVars, meshVars, sceneVars, lightVars, inputVars, textureVars, gpuVars, callbackVars>>

\* mainLoop: the loop condition holds and drawFrame is called.
CallDrawFrame ==
    /\ pc = "poll"
    /\ ~shouldExit
    /\ pc' = "wait"
    /\ nextImagePair' = NoImagePair
    /\ presentResult' = "none"
    /\ UNCHANGED <<dispatchIndex, currentFrame, inFlightFences, imageAvailableSemaphores,
                   gpuQueue, commandBuffers, uniformBuffers, now, lastFrameTime, shouldExit>>
    /\ UNCHANGED <<swapVars, meshVars, sceneVars, lightVars, inputVars, textureVars, gpuVars>>
    /\ frameEvents' = <<>>
    /\ UNCHANGED <<frameCallbacks, invoked, passStart, danglingVisit, cursorDelivered, secondsDelivered>>

\* The fence wait left out: the call returns whatever the state of the fence.
FenceWaitSkipped(s) == TRUE

\* device.waitForFences({inFlightFences[s]}, true, UINT64_MAX) returns.
FenceWaitReturns(s) == inFlightFences[s]

\* drawFrame, first statement: the wait on the fence of the current slot.
WaitForFences ==
    /\ pc = "wait"
    /\ FenceWaitReturns(currentFrame)
    /\ pc' = "ratecap"
    /\ UNCHANGED <<dispatchIndex, currentFrame, inFlightFences, imageAvailableSemaphores,
                   gpuQueue, commandBuffers, uniformBuffers, now, lastFrameTime,
                   nextImagePair, presentResult, shouldExit>>
    /\ UNCHANGED <<swapVars, meshVars, sceneVars, lightVars, inputVars, textureVars, gpuVars>>
    /\ frameEvents' = Append(frameEvents, [op |-> "waitForFences", fence |-> currentFrame])
    /\ UNCHANGED <<frameCallbacks, invoked, passStart, danglingVisit, cursorDelivered, secondsDelivered>>

\* The cap compared one tick short of the frame interval.
FrameTooEarlyOffByOne(t, last) == t - last < TicksPerFrame - 1

\* sinceLastFrame.count() < 1.0f, the duration counted in 1 / MAX_FRAMERATE seconds.
FrameTooEarly(t, last) == t - last < TicksPerFrame

\* The callback loop of drawFrame begins: nothing is invoked yet; the scene and the
\* registered callbacks of this moment are remembered, and passedSeconds of the call,
\* the time from lastFrameTime to the clock reading of the frame-rate cap.
BeginPass ==
    /\ invoked' = [n \in Nodes |-> <<>>]
    /\ passStart' = [running |-> TRUE, objects |-> objects, children |-> children,
                     frameCallbacks |-> frameCallbacks,
                     passedSeconds |-> now - lastFrameTime]

\* drawFrame returns: the record of the dispatch pass is dropped.
EndPass ==
    /\ invoked' = [n \in Nodes |-> <<>>]
    /\ passStart' = NoPass

\* Object::runFrameCallbacks of node n: every registered callback is called, in the
\* order of the vector, with the cursor offset of the moment.
RunCallbacks(n) ==
    /\ invoked' = [invoked EXCEPT ![n] = @ \o [k \in 1 .. frameCallbacks[n] |-> k]]
    /\ cursorDelivered' = [cursorDelivered EXCEPT ![n] = @ + cursorOffset]
    /\ secondsDelivered' =
           [secondsDelivered EXCEPT ![n] = IF @ < 0 THEN @ ELSE @ + passStart.passedSeconds]

\* drawFrame, the frame-rate cap: too early, the call sleeps and returns; otherwise the
\* callback loop starts at i = 0.
RateCap ==
    /\ pc = "ratecap"
    /\ IF FrameTooEarly(now, lastFrameTime)
       THEN pc' = "poll" /\ UNCHANGED <<dispatchIndex, invoked, passStart>>
       ELSE /\ pc' = "dispatch"
            /\ dispatchIndex' = 0
            /\ BeginPass
    /\ UNCHANGED <<currentFrame, inFlightFences, imageAvailableSemaphores,
                   gpuQueue, commandBuffers, uniformBuffers, now, lastFrameTime,
                   nextImagePair, presentResult, shouldExit>>
    /\ UNCHANGED <<swapVars, meshVars, sceneVars, lightVars, inputVars, textureVars, gpuVars>>
    /\ UNCHANGED <<frameCallbacks, danglingVisit, cursorDelivered, secondsDelivered, frameEvents>>

\* The block ORs its own bit into the flags and clears no other bit.
DebugModeBlockKeepsBits(st, key, mode, erased, bits) ==
    IF "RIGHT_CONTROL" \in st.keys /\ key \in st.keys /\ st.viewMode # mode
    THEN [st EXCEPT !.keys = @ \ {erased}, !.flags = @ \cup bits, !.viewMode = mode]
    ELSE st

\* One "if (RIGHT_CONTROL and key pressed) if (viewMode != mode) {...}" block of
\* handleDebugModes: the key erased, the flag bits set and the view mode taken.
DebugModeBlock(st, key, mode, erased, bits) ==
    IF "RIGHT_CONTROL" \in st.keys /\ key \in st.keys /\ st.viewMode # mode
    THEN [st EXCEPT !.keys = @ \ {erased}, !.flags = bits, !.viewMode = mode]
    ELSE st

\* The last block of handleDebugModes: RIGHT_CONTROL + C toggles culling.
DebugCullingBlock(st) ==
    IF "RIGHT_CONTROL" \in st.keys /\ "C" \in st.keys
    THEN [st EXCEPT !.keys = @ \ {"C"}, !.culling = ~@]
    ELSE st

\* Renderer::handleDebugModes on the keys, flag bits, view mode and culling flag.
HandleDebugModes(st) ==
    LET s1 == DebugModeBlock(st, "1", "OFF", "1", {})
        s2 == DebugModeBlock(s1, "2", "UNLIT", "2", {"COLOR_UNLIT"})
        s3 == DebugModeBlock(s2, "3", "NORMALS", "3", {"COLOR_NORMALS"})
        s4 == DebugModeBlock(s3, "4", "DEPTH", "4", {"COLOR_DEPTH"})
        s5 == DebugModeBlock(s4, "5", "WIREFRAME", "4", {"COLOR_WIREFRAME"})
    IN DebugCullingBlock(s5)

\* drawFrame, one round of the callback loop: objects[i]->runFrameCallbacks(...) with
\* callbacks that leave the renderer alone.
RunFrameCallbacks ==
    /\ pc = "dispatch"
    /\ dispatchIndex < Len(objects)
    /\ dispatchIndex' = dispatchIndex + 1
    /\ UNCHANGED <<pc, currentFrame, inFlightFences, imageAvailableSemaphores,
                   gpuQueue, commandBuffers, uniformBuffers, now, lastFrameTime,
                   nextImagePair, presentResult, shouldExit>>
    /\ UNCHANGED <<swapVars, meshVars, sceneVars, lightVars, inputVars, textureVars, gpuVars>>
    /\ RunCallbacks(objects[dispatchIndex + 1])
    /\ UNCHANGED <<frameCallbacks, passStart, danglingVisit, frameEvents>>

\* drawFrame, after the callback loop: the cursor offset is zeroed and
\* handleDebugModes runs.
EndDispatch ==
    /\ pc = "dispatch"
    /\ dispatchIndex >= Len(objects)
    /\ cursorOffset' = 0
    /\ UNCHANGED <<prevOffset, heldKeys, cursorMotion>>
    /\ LET st == HandleDebugModes([keys |-> pressedKeys, flags |-> debugFlags,
                                   viewMode |-> debugFeatures.viewMode,
                                   culling |-> debugFeatures.culling])
       IN /\ pressedKeys' = st.keys
          /\ debugFlags' = st.flags
          /\ debugFeatures' = [culling |-> st.culling, viewMode |-> st.viewMode]
    /\ pc' = "acquire"
    /\ UNCHANGED <<dispatchIndex, currentFrame, inFlightFences, imageAvailableSemaphores,
                   gpuQueue, commandBuffers, uniformBuffers, now, lastFrameTime,
                   nextImagePair, presentResult, shouldExit>>
    /\ UNCHANGED <<swapVars, meshVars, sceneVars, lightVars, textureVars, gpuVars, callbackVars>>

\* swapChain.acquireNextImage(UINT64_MAX, imageAvailableSemaphores[currentFrame]) with
\* a result of the set results; a result that hands out an image signals the semaphore.
AcquireNextImage(results) ==
    /\ pc = "acquire"
    /\ \E r \in results, i \in Images :
          /\ r # "eSuccess" => swapChain.gen < MaxRecreate
          /\ nextImagePair' = [result |-> r, index |-> i]
          /\ imageAvailableSemaphores' =
                 [imageAvailableSemaphores EXCEPT ![currentFrame] =
                      @ \/ r \in {"eSuccess", "eSuboptimalKHR"}]
    /\ pc' = "acquired"
    /\ UNCHANGED <<dispatchIndex, currentFrame, inFlightFences,
                   gpuQueue, commandBuffers, uniformBuffers, now, lastFrameTime,
                   presentResult, shouldExit>>
    /\ UNCHANGED <<swapVars, meshVars, sceneVars, lightVars, inputVars, textureVars, gpuVars>>
    /\ frameEvents' = Append(frameEvents, [op |-> "acquireNextImage", semaphore |-> currentFrame,
                                          signalled |-> imageAvailableSemaphores[currentFrame]])
    /\ UNCHANGED <<frameCallbacks, invoked, passStart, danglingVisit, cursorDelivered, secondsDelivered>>

AcquireAny == AcquireNextImage(AcquireResults)

\* The abort condition without the suboptimal result.
MustRecreateNoSuboptimal(pair, resized) ==
    \/ pair.result = "eErrorOutOfDateKHR"
    \/ resized

\* The condition under which drawFrame gives the frame up after the acquisition.
MustRecreate(pair, resized) ==
    \/ pair.result = "eErrorOutOfDateKHR"
    \/ pair.result = "eSuboptimalKHR"
    \/ resized

\* The frame is given up and the swap chain rebuilt, but the resize flag is left set.
AbortFrameKeepsFlag ==
    /\ pc = "acquired"
    /\ MustRecreate(nextImagePair, framebufferResized)
    /\ pc' = "recreate"
    /\ UNCHANGED <<framebufferResized, windowExtent, swapChain, swapChainImageViews,
                   depthBuffers, emissiveBuffers, normalBuffers, intermediateColorBuffers,
                   swapChainFramebuffers>>
    /\ UNCHANGED <<dispatchIndex, currentFrame, inFlightFences, imageAvailableSemaphores,
                   gpuQueue, commandBuffers, uniformBuffers, now, lastFrameTime,
                   nextImagePair, presentResult, shouldExit>>
    /\ UNCHANGED <<meshVars, sceneVars, lightVars, inputVars, textureVars, gpuVars>>
    /\ EndPass
    /\ UNCHANGED <<frameCallbacks, danglingVisit, cursorDelivered, secondsDelivered, frameEvents>>

\* drawFrame: the frame is given up, the resize flag is cleared and recreateSwapChain
\* is entered.
AbortFrame ==
    /\ pc = "acquired"
    /\ MustRecreate(nextImagePair, framebufferResized)
    /\ framebufferResized' = FALSE
    /\ pc' = "recreate"
    /\ UNCHANGED <<windowExtent, swapChain, swapChainImageViews, depthBuffers, emissiveBuffers,
                   normalBuffers, intermediateColorBuffers, swapChainFramebuffers>>
    /\ UNCHANGED <<dispatchIndex, currentFrame, inFlightFences, imageAvailableSemaphores,
                   gpuQueue, commandBuffers, uniformBuffers, now, lastFrameTime,
                   nextImagePair, presentResult, shouldExit>>
    /\ UNCHANGED <<meshVars, sceneVars, lightVars, inputVars, textureVars, gpuVars>>
    /\ EndPass
    /\ UNCHANGED <<frameCallbacks, danglingVisit, cursorDelivered, secondsDelivered, frameEvents>>

\* The rebuild did not wait for the device.
DeviceWaitIdleSkipped(queue) == TRUE

\* device.waitIdle() returns: the GPU has finished everything submitted.
DeviceWaitIdle(queue) == queue = <<>>

\* Renderer::recreateSwapChain once the window has a size and device.waitIdle() has
\* returned: createSwapChain, createImageViews, createDepthResources,
\* createFramebuffers; drawFrame then returns.
RecreateSwapChain ==
    /\ pc = "recreate"
    /\ windowExtent # 0
    /\ DeviceWaitIdle(gpuQueue)
    /\ swapChain' = [gen |-> swapChain.gen + 1, extent |-> windowExtent]
    /\ swapChainImageViews' = NewImageViews(swapChain'.gen)
    /\ depthBuffers' = PushImages(depthBuffers, swapChain'.gen, swapChain'.extent)
    /\ swapChainFramebuffers' =
           MakeFramebuffers(intermediateColorBuffers, emissiveBuffers, normalBuffers,
                            depthBuffers', swapChainImageViews', swapChain'.extent)
    /\ pc' = "poll"
    /\ UNCHANGED <<framebufferResized, windowExtent, emissiveBuffers, normalBuffers,
                   intermediateColorBuffers>>
    /\ UNCHANGED <<dispatchIndex, currentFrame, inFlightFences, imageAvailableSemaphores,
                   gpuQueue, commandBuffers, uniformBuffers, now, lastFrameTime,
                   nextImagePair, presentResult, shouldExit>>
    /\ UNCHANGED <<meshVars, sceneVars, lightVars, inputVars, textureVars, gpuVars, callbackVars>>

\* The command buffer is recorded from the scene as it was when the callback loop of
\* the frame began.
RecordCommandBufferFromPassStart(imageIndex) ==
    [recorded |-> TRUE, image |-> imageIndex,
     descriptorSetUBO |-> currentFrame, descriptorSetLightSubpass |-> imageIndex,
     vertexBuffer |-> vertexBuffer.handle, indexBuffer |-> indexBuffer.handle,
     draws |-> RecordedDraws(passStart.objects, passStart.children, indices, transparent)]

\* Renderer::recordCommandBuffer(imageIndex, bufferIndex): the command buffer is reset
\* and recorded against the framebuffer of the image and the current vertex and index
\* buffers; it binds *descriptorSetsUBO[bufferIndex] and
\* *descriptorSetsLightSubpass[imageIndex]. bufferIndex is currentFrame.
RecordCommandBuffer(imageIndex) ==
    [recorded |-> TRUE, image |-> imageIndex,
     descriptorSetUBO |-> currentFrame, descriptorSetLightSubpass |-> imageIndex,
     vertexBuffer |-> vertexBuffer.handle, indexBuffer |-> indexBuffer.handle,
     draws |-> RecordedDraws(objects, children, indices, transparent)]

\* drawFrame after a good acquisition: lastFrameTime is taken, the fence of the slot is
\* reset, the command buffer is recorded and the uniform buffer written.
RecordFrame ==
    /\ pc = "acquired"
    /\ ~MustRecreate(nextImagePair, framebufferResized)
    /\ lastFrameTime' = now
    /\ inFlightFences' = [inFlightFences EXCEPT ![currentFrame] = FALSE]
    /\ commandBuffers' = [commandBuffers EXCEPT ![currentFrame] =
                              RecordCommandBuffer(nextImagePair.index)]
    /\ uniformBuffers' = [uniformBuffers EXCEPT ![currentFrame] =
                              [written |-> TRUE, extent |-> swapChain.extent]]
    /\ pc' = "submit"
    /\ UNCHANGED <<dispatchIndex, currentFrame, imageAvailableSemaphores, gpuQueue, now,
                   nextImagePair, presentResult, shouldExit>>
    /\ UNCHANGED <<swapVars, meshVars, sceneVars, lightVars, inputVars, textureVars, gpuVars>>
    /\ frameEvents' = frameEvents
           \o <<[op |-> "resetFences", fence |-> currentFrame],
                [op |-> "recordCommandBuffer", commandBuffer |-> currentFrame,
                 image |-> nextImagePair.index],
                [op |-> "updateUniformBuffer", uniformBuffer |-> currentFrame]>>
    /\ UNCHANGED <<frameCallbacks, invoked, passStart, danglingVisit, cursorDelivered, secondsDelivered>>

\* The submission signalled the fence of the other slot.
SubmitInfoSignalsOtherFence(s) ==
    [waitSemaphore |-> s, commandBuffer |-> s, signalSemaphore |-> s,
     fence |-> (s + 1) % MAX_FRAMES_IN_FLIGHT]

\* vk::SubmitInfo submitInfo{...} and the fence given to submit, as slot indices:
\* wait on imageAvailableSemaphores[s], run commandBuffers[s], signal
\* renderFinishedSemaphores[s] and inFlightFences[s].
SubmitInfo(s) ==
    [waitSemaphore |-> s, commandBuffer |-> s, signalSemaphore |-> s, fence |-> s]

\* vk::PresentInfoKHR presentInfo{...}: wait on renderFinishedSemaphores[s], present
\* the image of index imageIndex.
PresentInfo(s, imageIndex) == [waitSemaphore |-> s, image |-> imageIndex]

\* graphicsQueue.submit(submitInfo, inFlightFences[currentFrame]): the command buffer
\* of the slot goes to the GPU, which waits on the image-available semaphore.
SubmitFrame ==
    /\ pc = "submit"
    /\ LET info == SubmitInfo(currentFrame)
           cb == commandBuffers[info.commandBuffer]
       IN /\ gpuQueue' = Append(gpuQueue,
                                [slot |-> info.fence,
                                 image |-> cb.image,
                                 vertexBuffer |-> cb.vertexBuffer,
                                 indexBuffer |-> cb.indexBuffer])
          /\ imageAvailableSemaphores' =
                 [imageAvailableSemaphores EXCEPT ![info.waitSemaphore] = FALSE]
    /\ pc' = "present"
    /\ UNCHANGED <<dispatchIndex, currentFrame, inFlightFences, commandBuffers,
                   uniformBuffers, now, lastFrameTime, nextImagePair, presentResult,
                   shouldExit>>
    /\ UNCHANGED <<swapVars, meshVars, sceneVars, lightVars, inputVars, textureVars, gpuVars>>
    /\ frameEvents' = Append(frameEvents, [op |-> "submit", info |-> SubmitInfo(currentFrame)])
    /\ UNCHANGED <<frameCallbacks, invoked, passStart, danglingVisit, cursorDelivered, secondsDelivered>>

\* The slot index never advanced.
NextSlotStuck(s) == s

\* currentFrame = (currentFrame + 1) % MAX_FRAMES_IN_FLIGHT.
NextSlot(s) == (s + 1) % MAX_FRAMES_IN_FLIGHT

\* presentQueue.presentKHR(presentInfo) with a result of the set results, which
\* drawFrame does not look at; the slot index advances and ESCAPE ends the loop.
PresentFrame(results) ==
    /\ pc = "present"
    /\ \E r \in results : presentResult' = r
    /\ currentFrame' = NextSlot(currentFrame)
    /\ shouldExit' = (shouldExit \/ "ESCAPE" \in pressedKeys)
    /\ pc' = "poll"
    /\ UNCHANGED <<dispatchIndex, inFlightFences, imageAvailableSemaphores, gpuQueue,
                   commandBuffers, uniformBuffers, now, lastFrameTime, nextImagePair>>
    /\ UNCHANGED <<swapVars, meshVars, sceneVars, lightVars, inputVars, textureVars, gpuVars>>
    /\ EndPass
    /\ frameEvents' = frameEvents
           \o <<[op |-> "presentKHR", info |-> PresentInfo(currentFrame, nextImagePair.index)],
                [op |-> "advance", currentFrame |-> NextSlot(currentFrame)]>>
    /\ UNCHANGED <<frameCallbacks, danglingVisit, cursorDelivered, secondsDelivered>>

PresentAny == PresentFrame(PresentResults)

(* ------------------ callbacks that call the renderer ------------------ *)

\* The root whose frame callback calls the renderer is the first of the list; the
\* callbacks of the other roots leave the scene alone.
CallbackCallsRenderer(i, objs) == i = 0 /\ i < Len(objs)

\* One round of the callback loop whose callbacks call renderer.addObject, as
\* placeMoreCats of the katamari sample does.
CallbackAddObject ==
    /\ pc = "dispatch"
    /\ CallbackCallsRenderer(dispatchIndex, objects)
    /\ \E n \in Nodes : ~InRoots(n) /\ AddObject(n)
    /\ dispatchIndex' = dispatchIndex + 1
    /\ UNCHANGED <<pc, currentFrame, inFlightFences, imageAvailableSemaphores,
                   gpuQueue, commandBuffers, uniformBuffers, now, lastFrameTime,
                   nextImagePair, presentResult, shouldExit>>
    /\ UNCHANGED <<swapVars, meshVars, inputVars, textureVars, gpuVars>>
    /\ RunCallbacks(objects[dispatchIndex + 1])
    /\ UNCHANGED <<frameCallbacks, passStart, danglingVisit, frameEvents>>

\* One round of the callback loop whose callbacks call renderer.delObject.
CallbackDelObject ==
    /\ pc = "dispatch"
    /\ CallbackCallsRenderer(dispatchIndex, objects)
    /\ \E n \in Nodes : DelObject(n)
    /\ dispatchIndex' = dispatchIndex + 1
    /\ UNCHANGED <<pc, currentFrame, inFlightFences, imageAvailableSemaphores,
                   gpuQueue, commandBuffers, uniformBuffers, now, lastFrameTime,
                   nextImagePair, presentResult, shouldExit>>
    /\ UNCHANGED <<swapVars, meshVars, inputVars, textureVars, gpuVars>>
    /\ RunCallbacks(objects[dispatchIndex + 1])
    /\ UNCHANGED <<frameCallbacks, passStart, danglingVisit, frameEvents>>

\* One round of the callback loop whose callbacks append a node to a child list, as
\* addIfCollides of the katamari sample does.
CallbackAddChild ==
    /\ pc = "dispatch"
    /\ CallbackCallsRenderer(dispatchIndex, objects)
    /\ \E p \in Nodes, c \in Nodes : LinkAllowed(p, c) /\ AddChild(p, c)
    /\ dispatchIndex' = dispatchIndex + 1
    /\ UNCHANGED <<pc, currentFrame, inFlightFences, imageAvailableSemaphores,
                   gpuQueue, commandBuffers, uniformBuffers, now, lastFrameTime,
                   nextImagePair, presentResult, shouldExit>>
    /\ UNCHANGED <<swapVars, meshVars, inputVars, textureVars, gpuVars>>
    /\ RunCallbacks(objects[dispatchIndex + 1])
    /\ UNCHANGED <<frameCallbacks, passStart, danglingVisit, frameEvents>>

\* One round of the callback loop whose callbacks call renderer.addLight.
CallbackAddLight ==
    /\ pc = "dispatch"
    /\ CallbackCallsRenderer(dispatchIndex, objects)
    /\ lights.lightCount < MaxLights
    /\ AddLight([position |-> lights.lightCount + 1, color |-> 1, brightness |-> 1])
    /\ dispatchIndex' = dispatchIndex + 1
    /\ UNCHANGED <<pc, currentFrame, inFlightFences, imageAvailableSemaphores,
                   gpuQueue, commandBuffers, uniformBuffers, now, lastFrameTime,
                   nextImagePair, presentResult, shouldExit>>
    /\ UNCHANGED <<swapVars, meshVars, inputVars, textureVars, gpuVars>>
    /\ RunCallbacks(objects[dispatchIndex + 1])
    /\ UNCHANGED <<frameCallbacks, passStart, danglingVisit, frameEvents>>

\* One round of the callback loop whose callbacks call renderer.setAmbientLight.
CallbackSetAmbientLight ==
    /\ pc = "dispatch"
    /\ CallbackCallsRenderer(dispatchIndex, objects)
    /\ lights.ambient # <<1, 1>>
    /\ SetAmbientLight([color |-> 1, brightness |-> 1])
    /\ dispatchIndex' = dispatchIndex + 1
    /\ UNCHANGED <<pc, currentFrame, inFlightFences, imageAvailableSemaphores,
                   gpuQueue, commandBuffers, uniformBuffers, now, lastFrameTime,
                   nextImagePair, presentResult, shouldExit>>
    /\ UNCHANGED <<swapVars, meshVars, inputVars, textureVars, gpuVars>>
    /\ RunCallbacks(objects[dispatchIndex + 1])
    /\ UNCHANGED <<frameCallbacks, passStart, danglingVisit, frameEvents>>

\* One round of the callback loop in which the first callback of the dispatched root
\* registers another callback on that root: frameCallbacks.push_back inside the
\* range-for of Object::runFrameCallbacks. When the vector reallocates while callbacks
\* are still to come, the loop goes on through its stale iterators; otherwise the
\* callbacks registered before the round are called.
CallbackRegisters ==
    /\ pc = "dispatch"
    /\ dispatchIndex < Len(objects)
    /\ LET r == objects[dispatchIndex + 1]
       IN /\ frameCallbacks[r] >= 1
          /\ frameCallbacks[r] < MaxCallbacks
          /\ frameCallbacks' = [frameCallbacks EXCEPT ![r] = @ + 1]
          /\ \E reallocates \in BOOLEAN :
                IF reallocates /\ frameCallbacks[r] >= 2
                THEN /\ danglingVisit' = TRUE
                     /\ invoked' = [invoked EXCEPT ![r] = @ \o <<1>>]
                     /\ cursorDelivered' = [cursorDelivered EXCEPT ![r] = @ + cursorOffset]
                     /\ secondsDelivered' =
                            [secondsDelivered EXCEPT
                                 ![r] = IF @ < 0 THEN @ ELSE @ + passStart.passedSeconds]
                ELSE /\ UNCHANGED danglingVisit
                     /\ RunCallbacks(r)
    /\ dispatchIndex' = dispatchIndex + 1
    /\ UNCHANGED <<pc, currentFrame, inFlightFences, imageAvailableSemaphores,
                   gpuQueue, commandBuffers, uniformBuffers, now, lastFrameTime,
                   nextImagePair, presentResult, shouldExit>>
    /\ UNCHANGED <<swapVars, meshVars, sceneVars, lightVars, inputVars, textureVars, gpuVars>>
    /\ UNCHANGED <<passStart, frameEvents>>

\* The clock advances by a whole frame interval.
FrameTick == ClockAdvance(TicksPerFrame)

AcquireSuccess == AcquireNextImage({"eSuccess"})

PresentSuccess == PresentFrame({"eSuccess"})

(* --------------------------- specifications --------------------------- *)

\* The meshes a node may carry: none, a point, a triangle, a two-vertex mesh with
\* four indices.
MeshChoices ==
    <<[vertices |-> 0, indices |-> <<>>], [vertices |-> 1, indices |-> <<0>>],
      [vertices |-> 3, indices |-> <<0, 1, 2>>], [vertices |-> 2, indices |-> <<0, 1, 1, 0>>]>>

\* A fresh renderer and application nodes that carry the meshes in turn, starting at
\* any of them.
InitAnyMeshes ==
    /\ InitFrameLoop
    /\ secondsDelivered = [n \in Nodes |-> -1]
    /\ InitEmptyScene
    /\ \E k \in 1 .. Len(MeshChoices) :
          LET m == [n \in Nodes |-> MeshChoices[((n + k) % Len(MeshChoices)) + 1]]
          IN /\ vertices = [n \in Nodes |-> m[n].vertices]
             /\ indices = [n \in Nodes |-> m[n].indices]
    /\ transparent = [n \in Nodes |-> FALSE]
    /\ transform = DefaultTransforms

\* main() removes a root again.
MainDelObject ==
    /\ pc = "main"
    /\ \E n \in Nodes : DelObject(n)
    /\ UNCHANGED <<schedVars, swapVars, meshVars, inputVars, textureVars, gpuVars, callbackVars>>

\* The uploads main() causes while it builds and changes its scene.
NextUpload ==
    \/ MainAddObject
    \/ MainDelObject
    \/ MainAddChild

SpecUpload == InitAnyMeshes /\ [][NextUpload]_vars

(* ----------------------------- input events --------------------------- *)

\* The keys the user touches, in the order in which a larger keyboard adds them.
KeyOrder == <<"RIGHT_CONTROL", "4", "5", "C", "1", "2", "3", "ESCAPE">>
InputKeys == {KeyOrder[k] : k \in 1 .. MaxInputKeys}

\* The actions GLFW reports with a key event.
KeyActions == {"GLFW_PRESS", "GLFW_RELEASE", "GLFW_REPEAT"}

\* A release is taken for a press.
KeyCallbackReleaseInserts(keys, key, action) ==
    IF action = "GLFW_PRESS" \/ action = "GLFW_RELEASE" THEN keys \cup {key} ELSE keys

\* Renderer::keyCallback on the set pressedKeys: a press inserts the key, a release
\* erases it, any other action leaves the set alone.
KeyCallbackSet(keys, key, action) ==
    IF action = "GLFW_PRESS" THEN keys \cup {key}
    ELSE IF action = "GLFW_RELEASE" THEN keys \ {key}
    ELSE keys

\* Events reach the callbacks inside glfwPollEvents of mainLoop and inside
\* glfwWaitEvents of recreateSwapChain while the window is minimised.
PollingEvents ==
    \/ pc = "poll"
    \/ pc = "recreate" /\ windowExtent = 0

\* glfwPollEvents delivers a key event: keyCallback. The keyboard reports a press of a
\* key that is up, a release or a repeat of a key that is down.
KeyCallback ==
    /\ PollingEvents
    /\ \E key \in InputKeys, action \in KeyActions :
          /\ action = "GLFW_PRESS" <=> key \notin heldKeys
          /\ pressedKeys' = KeyCallbackSet(pressedKeys, key, action)
          /\ heldKeys' = IF action = "GLFW_RELEASE" THEN heldKeys \ {key}
                         ELSE heldKeys \cup {key}
          /\ pressedKeys' # pressedKeys \/ heldKeys' # heldKeys
    /\ UNCHANGED <<cursorOffset, prevOffset, debugFeatures, debugFlags, cursorMotion>>
    /\ UNCHANGED <<schedVars, swapVars, meshVars, sceneVars, lightVars, textureVars, gpuVars,
                   callbackVars>>

\* The offset is overwritten by the last motion.
AccumulateCursorLastOnly(offset, prev, xpos) == xpos - prev

\* cursorOffset.x += xpos - prevOffset.x.
AccumulateCursor(offset, prev, xpos) == offset + (xpos - prev)

\* glfwPollEvents delivers a cursor motion to xpos: cursorPositionCallback.
CursorPositionCallback ==
    /\ PollingEvents
    /\ \E xpos \in 0 .. MaxCursor :
          /\ xpos # prevOffset
          /\ cursorOffset' = AccumulateCursor(cursorOffset, prevOffset, xpos)
          /\ cursorMotion' = cursorMotion + (xpos - prevOffset)
          /\ prevOffset' = xpos
    /\ UNCHANGED <<pressedKeys, debugFeatures, debugFlags, heldKeys>>
    /\ UNCHANGED <<schedVars, swapVars, meshVars, sceneVars, lightVars, textureVars, gpuVars,
                   callbackVars>>

InitInput ==
    InitFrameLoop /\ InitDefaultMeshes /\ InitTwoRoots
        /\ secondsDelivered = [n \in Nodes |-> -1]

\* The frame loop, skipped and given-up frames included, with cursor events.
NextCursor ==
    \/ Run
    \/ Tick
    \/ GpuComplete
    \/ CursorPositionCallback
    \/ CallDrawFrame
    \/ WaitForFences
    \/ RateCap
    \/ RunFrameCallbacks
    \/ EndDispatch
    \/ AcquireAny
    \/ AbortFrame
    \/ RecreateSwapChain
    \/ RecordFrame
    \/ SubmitFrame
    \/ PresentSuccess

SpecCursor == InitInput /\ [][NextCursor]_vars

\* The frame loop with key events.
NextKeys ==
    \/ Run
    \/ FrameTick
    \/ GpuComplete
    \/ KeyCallback
    \/ CallDrawFrame
    \/ WaitForFences
    \/ RateCap
    \/ RunFrameCallbacks
    \/ EndDispatch
    \/ AcquireSuccess
    \/ RecordFrame
    \/ SubmitFrame
    \/ PresentSuccess

SpecKeys == InitInput /\ [][NextKeys]_vars

(* ------------------------------- lights -------------------------------- *)

InitLighting ==
    InitFrameLoop /\ InitDefaultMeshes /\ InitEmptyScene
        /\ secondsDelivered = [n \in Nodes |-> -1]

NextLighting == MainAddLight \/ MainSetAmbientLight

\* The application setting up its lights in any interleaving.
SpecLights == InitLighting /\ [][NextLighting]_vars

(* ------------------------------ textures ------------------------------- *)

\* Renderer::loadTextureToDescriptors: one descriptor write per frame slot with
\* dstArrayElement = textureIndex.
LoadTextureToDescriptors(textureIndex) ==
    textureDescriptors' = textureDescriptors \cup {textureIndex}

\* Object::loadTexture(path) on a running renderer: createTextureImage, then
\* loadTextureToDescriptors of the index it returned.
LoadTexture(path) ==
    /\ Len(textures) <= maxTextures
    /\ textures' = CreateTextureImage(textures, path)
    /\ LoadTextureToDescriptors(CreatedIndex(textures'))
    /\ textureReturns' = Append(textureReturns,
                                [path |-> path, index |-> CreatedIndex(textures')])
    /\ UNCHANGED <<schedVars, swapVars, meshVars, sceneVars, lightVars, inputVars,
                   callbackVars, gpuVars>>

\* The files the application may pick for its next load.
NextTextureFiles == IF Len(textureReturns) < MaxVariedTextures THEN TextureFiles ELSE {"A"}

InitTextures ==
    InitFrameLoop /\ InitDefaultMeshes /\ InitEmptyScene
        /\ secondsDelivered = [n \in Nodes |-> -1]

NextTextures == \E path \in NextTextureFiles : LoadTexture(path)

\* The application loading one texture after the other.
SpecTextures == InitTextures /\ [][NextTextures]_vars

\* The scene of the katamari sample when run() is called: one root with one child,
\* the child linked before the root was added.
InitRootWithChild ==
    LET ch == [n \in Nodes |-> IF n = 1 THEN <<2>> ELSE <<>>]
        packed == Pack(<<1>>, ch, DefaultVertices, DefaultIndices)
    IN /\ objects = <<1>>
       /\ children = ch
       /\ parent = ParentLinks(children)
       /\ vertexBuffer = [handle |-> NextHandle(0),
                          size |-> Len(packed.vertices) * SizeofVertex,
                          vertices |-> packed.vertices]
       /\ indexBuffer = [handle |-> NextHandle(0),
                         size |-> Len(packed.indices) * SizeofIndex,
                         indices |-> packed.indices, owner |-> packed.owner]
       /\ stagingBuffer = [handle |-> NextHandle(0),
                           size |-> Len(packed.indices) * SizeofIndex]
       /\ InitLights

InitDispatch ==
    InitFrameLoop /\ InitDefaultMeshes /\ InitRootWithChild
        /\ secondsDelivered = [n \in Nodes |-> -1]

\* The frame loop with callbacks that add roots and register callbacks.
NextDispatch ==
    \/ Run
    \/ FrameTick
    \/ GpuComplete
    \/ CallDrawFrame
    \/ WaitForFences
    \/ RateCap
    \/ RunFrameCallbacks
    \/ CallbackAddObject
    \/ CallbackRegisters
    \/ EndDispatch
    \/ AcquireSuccess
    \/ RecordFrame
    \/ SubmitFrame
    \/ PresentSuccess

SpecDispatch == InitDispatch /\ [][NextDispatch]_vars

\* The renderer with one root, whose callbacks build the rest of the scene.
InitScene ==
    InitFrameLoop /\ InitDefaultMeshes /\ InitOneRoot
        /\ secondsDelivered = [n \in Nodes |-> -1]

\* The frame loop with callbacks that change the scene and the lights, on a surface
\* that is never out of date.
NextScene ==
    \/ Run
    \/ FrameTick
    \/ GpuComplete
    \/ CallDrawFrame
    \/ WaitForFences
    \/ RateCap
    \/ RunFrameCallbacks
    \/ CallbackAddObject
    \/ CallbackDelObject
    \/ CallbackAddChild
    \/ CallbackAddLight
    \/ CallbackSetAmbientLight
    \/ EndDispatch
    \/ AcquireSuccess
    \/ RecordFrame
    \/ SubmitFrame
    \/ PresentSuccess

SpecScene == InitScene /\ [][NextScene]_vars

\* The frame loop over the scene main has built so far, with callbacks that leave the
\* renderer alone: the clock, resizes, every acquisition and present result.
Next ==
    \/ Run
    \/ Tick
    \/ GpuComplete
    \/ FramebufferResizeCallback
    \/ CallDrawFrame
    \/ WaitForFences
    \/ RateCap
    \/ RunFrameCallbacks
    \/ EndDispatch
    \/ AcquireAny
    \/ AbortFrame
    \/ RecreateSwapChain
    \/ RecordFrame
    \/ SubmitFrame
    \/ PresentAny

Spec == Init /\ [][Next]_vars

\* The same renderer and frame loop, with the seconds handed to the callbacks added up.
InitSeconds ==
    InitFrameLoop /\ InitDefaultMeshes /\ InitTwoRoots
        /\ secondsDelivered = [n \in Nodes |-> 0]

SpecSeconds == InitSeconds /\ [][Next]_vars

\* One round of the callback loop in which a callback of the running root calls
\* renderer.delObject for another root.
CallbackDelOtherRoot ==
    /\ pc = "dispatch"
    /\ dispatchIndex < Len(objects)
    /\ \E n \in Nodes : n # objects[dispatchIndex + 1] /\ DelObject(n)
    /\ dispatchIndex' = dispatchIndex + 1
    /\ UNCHANGED <<pc, currentFrame, inFlightFences, imageAvailableSemaphores,
                   gpuQueue, commandBuffers, uniformBuffers, now, lastFrameTime,
                   nextImagePair, presentResult, shouldExit>>
    /\ UNCHANGED <<swapVars, meshVars, inputVars, textureVars, gpuVars>>
    /\ RunCallbacks(objects[dispatchIndex + 1])
    /\ UNCHANGED <<frameCallbacks, passStart, danglingVisit, frameEvents>>

\* The frame loop over the roots main has added, with callbacks that remove roots.
NextRemoval ==
    \/ MainAddObject
    \/ Run
    \/ FrameTick
    \/ GpuComplete
    \/ CallDrawFrame
    \/ WaitForFences
    \/ RateCap
    \/ RunFrameCallbacks
    \/ CallbackDelOtherRoot
    \/ EndDispatch
    \/ AcquireSuccess
    \/ RecordFrame
    \/ SubmitFrame
    \/ PresentSuccess

SpecRemoval == InitScene /\ [][NextRemoval]_vars

\* main() hands a node to the renderer that is a root already.
MainAddObjectAgain ==
    /\ pc = "main"
    /\ Len(objects) < NumNodes
    /\ \E n \in Nodes : InRoots(n) /\ AddObject(n)
    /\ UNCHANGED <<schedVars, swapVars, meshVars, inputVars, textureVars, gpuVars, callbackVars>>

\* main() calls renderer.delObject with any node, root or not. For an object that is
\* not in the list std::find returns end() and erasing end() is undefined. The
\* outcomes: the vector drops its last element (the tail move is empty and the end
\* pointer is decremented), or the program dies.
MainDelAnyObject ==
    /\ pc = "main"
    /\ \E n \in Nodes :
          LET EraseEnd(objs) ==
                  {[crashed |-> TRUE, objects |-> objs]}
                      \cup (IF objs = <<>>
                            THEN {}
                            ELSE {[crashed |-> FALSE,
                                   objects |-> SubSeq(objs, 1, Len(objs) - 1)]})
          IN
          IF InRoots(n)
          THEN /\ DelObject(n)
               /\ lastDelObject' = [called |-> TRUE, obj |-> n, before |-> objects,
                                    after |-> objects', crashed |-> FALSE]
               /\ UNCHANGED schedVars
          ELSE \E outcome \in EraseEnd(objects) :
                  IF outcome.crashed
                  THEN /\ pc' = "crashed"
                       /\ lastDelObject' = [called |-> TRUE, obj |-> n, before |-> objects,
                                            after |-> objects, crashed |-> TRUE]
                       /\ UNCHANGED <<dispatchIndex, currentFrame, inFlightFences,
                                      imageAvailableSemaphores, gpuQueue, commandBuffers,
                                      uniformBuffers, now, lastFrameTime, nextImagePair,
                                      presentResult, shouldExit>>
                       /\ UNCHANGED sceneVars
                       /\ UNCHANGED lightVars
                  ELSE /\ objects' = outcome.objects
                       /\ PutObjectsToBuffer(objects', children)
                       /\ lastDelObject' = [called |-> TRUE, obj |-> n, before |-> objects,
                                            after |-> objects', crashed |-> FALSE]
                       /\ UNCHANGED <<children, parent, lightVars>>
                       /\ UNCHANGED schedVars
    /\ UNCHANGED <<swapVars, meshVars, inputVars, textureVars, callbackVars, renderPassRun,
                   oneShot, flattenRun>>

\* main() adding roots, some of them twice, and removing nodes.
NextDelete ==
    \/ MainAddObject
    \/ MainAddObjectAgain
    \/ MainDelAnyObject

SpecDelete == InitAnyMeshes /\ [][NextDelete]_vars

(* ------------------------- debug view modes ---------------------------- *)

\* glfwPollEvents delivers a key event for any key the renderer looks at.
KeyCallbackAnyKey ==
    /\ PollingEvents
    /\ \E key \in Keys, action \in KeyActions :
          /\ action = "GLFW_PRESS" <=> key \notin heldKeys
          /\ pressedKeys' = KeyCallbackSet(pressedKeys, key, action)
          /\ heldKeys' = IF action = "GLFW_RELEASE" THEN heldKeys \ {key}
                         ELSE heldKeys \cup {key}
          /\ pressedKeys' # pressedKeys \/ heldKeys' # heldKeys
    /\ UNCHANGED <<cursorOffset, prevOffset, debugFeatures, debugFlags, cursorMotion>>
    /\ UNCHANGED <<schedVars, swapVars, meshVars, sceneVars, lightVars, textureVars, gpuVars,
                   callbackVars>>

\* A drawFrame call between two polls, by what it does to the input state: the
\* cursor offset reset and handleDebugModes.
DrawFrameDebugModes ==
    /\ PollingEvents
    /\ cursorOffset' = 0
    /\ LET st == HandleDebugModes([keys |-> pressedKeys, flags |-> debugFlags,
                                   viewMode |-> debugFeatures.viewMode,
                                   culling |-> debugFeatures.culling])
       IN /\ pressedKeys' = st.keys
          /\ debugFlags' = st.flags
          /\ debugFeatures' = [debugFeatures EXCEPT !.viewMode = st.viewMode,
                                                    !.culling = st.culling]
    /\ UNCHANGED <<prevOffset, heldKeys, cursorMotion>>
    /\ UNCHANGED <<schedVars, swapVars, meshVars, sceneVars, lightVars, textureVars, gpuVars,
                   callbackVars>>

\* Key events of the whole keyboard and frames.
NextDebugModes ==
    \/ Run
    \/ KeyCallbackAnyKey
    \/ DrawFrameDebugModes

SpecDebugModes == InitInput /\ [][NextDebugModes]_vars

(* --------------------------- the flatten loop -------------------------- *)

\* Application code, running from a frame callback, pushes any node onto the children
\* of any node: Object::children is a public vector, and nothing looks at the links
\* that exist already.
LinkAnyChild ==
    /\ pc # "main"
    /\ ~flattenRun.running
    /\ LinkCount(children, NumNodes) < MaxLinks
    /\ \E p \in Nodes, c \in Nodes : AddChild(p, c)
    /\ UNCHANGED <<schedVars, swapVars, meshVars, inputVars, textureVars, gpuVars, callbackVars>>

\* recordCommandBuffer enters its flatten loop: allObjects = objects, i = 0.
BeginFlatten ==
    /\ pc # "main"
    /\ ~flattenRun.running
    /\ flattenRun' = [running |-> TRUE, all |-> objects, i |-> 1,
                      depth |-> [k \in 1 .. Len(objects) |-> 1]]
    /\ UNCHANGED <<schedVars, swapVars, meshVars, sceneVars, lightVars, inputVars, textureVars,
                   callbackVars, renderPassRun, oneShot, lastDelObject>>

\* One round of "for (i = 0; i < allObjects.size(); i++)": the loop ends when i has
\* reached the size, and else appends the children of allObjects[i] and steps on.
FlattenVisit ==
    /\ flattenRun.running
    /\ IF flattenRun.i > Len(flattenRun.all)
       THEN flattenRun' = [flattenRun EXCEPT !.running = FALSE]
       ELSE /\ Len(flattenRun.all) + Len(children[flattenRun.all[flattenRun.i]]) <= MaxFlatten
            /\ flattenRun' =
                   [flattenRun EXCEPT
                        !.all = @ \o children[flattenRun.all[flattenRun.i]],
                        !.depth = @ \o [k \in 1 .. Len(children[flattenRun.all[flattenRun.i]])
                                            |-> flattenRun.depth[flattenRun.i] + 1],
                        !.i = @ + 1]
    /\ UNCHANGED <<schedVars, swapVars, meshVars, sceneVars, lightVars, inputVars, textureVars,
                   callbackVars, renderPassRun, oneShot, lastDelObject>>

\* main() adds roots and calls run(); then callbacks link nodes and the renderer flattens
\* the tree.
NextFlatten ==
    \/ MainAddObject
    \/ Run
    \/ LinkAnyChild
    \/ BeginFlatten
    \/ FlattenVisit

\* The loop is straight-line code of one thread: a round that can run does run.
SpecFlatten == InitScene /\ [][NextFlatten]_vars /\ WF_vars(FlattenVisit)

(* ------------------------- one-shot GPU commands ----------------------- *)

\* The image layouts the renderer names.
ImageLayouts ==
    {"eUndefined", "eTransferDstOptimal", "eShaderReadOnlyOptimal",
     "eDepthStencilAttachmentOptimal", "eColorAttachmentOptimal", "ePresentSrcKHR"}

\* Renderer::transitionImageLayout, the if chain: the stages and access masks of the
\* barrier for the four layout pairs it knows, throw std::runtime_error("unsupported
\* transition") for every other pair.
TransitionImageLayout(oldLayout, newLayout) ==
    IF oldLayout = "eUndefined" /\ newLayout = "eTransferDstOptimal"
    THEN [supported |-> TRUE, srcStage |-> "eTopOfPipe", dstStage |-> "eTransfer",
          srcMask |-> {}, dstMask |-> {"eTransferWrite"}]
    ELSE IF oldLayout = "eTransferDstOptimal" /\ newLayout = "eShaderReadOnlyOptimal"
    THEN [supported |-> TRUE, srcStage |-> "eTransfer", dstStage |-> "eFragmentShader",
          srcMask |-> {"eTransferWrite"}, dstMask |-> {"eShaderRead"}]
    ELSE IF oldLayout = "eUndefined" /\ newLayout = "eDepthStencilAttachmentOptimal"
    THEN [supported |-> TRUE, srcStage |-> "eTopOfPipe",
          dstStage |-> "eEarlyFragmentTests", srcMask |-> {},
          dstMask |-> {"eDepthStencilAttachmentRead", "eDepthStencilAttachmentWrite"}]
    ELSE IF oldLayout = "eUndefined" /\ newLayout = "eColorAttachmentOptimal"
    THEN [supported |-> TRUE, srcStage |-> "eTopOfPipe",
          dstStage |-> "eColorAttachmentOutput", srcMask |-> {},
          dstMask |-> {"eColorAttachmentRead", "eColorAttachmentWrite"}]
    ELSE [supported |-> FALSE, srcStage |-> "", dstStage |-> "", srcMask |-> {},
          dstMask |-> {}]

\* transitionImageLayout(image, format, oldLayout, newLayout) called in the state job
\* of the running call: an unsupported pair throws before beginSingleTimeCommands, a
\* supported one records the barrier and endSingleTimeCommands submits it; the call
\* then sits in graphicsQueue.waitIdle() and goes on with the step next.
CallTransition(job, oldLayout, newLayout, next) ==
    IF TransitionImageLayout(oldLayout, newLayout).supported
    THEN [job EXCEPT !.step = "waitIdle", !.next = next, !.newLayout = newLayout,
                     !.pending = TRUE,
                     !.log = Append(@, [op |-> "submit", oldLayout |-> oldLayout,
                                         newLayout |-> newLayout])]
    ELSE [NoOneShot EXCEPT
              !.log = Append(job.log, [op |-> "throw", oldLayout |-> oldLayout,
                                       newLayout |-> newLayout])]

\* The one-shot calls leave the rest of the renderer alone.
OneShotFrame ==
    UNCHANGED <<schedVars, swapVars, meshVars, sceneVars, lightVars, inputVars,
                callbackVars, renderPassRun, lastDelObject, flattenRun>>

\* Renderer::createTextureImage up to the return of its first transitionImageLayout:
\* the pixels are decoded and put into a staging buffer, the image is created with an
\* undefined layout and the transition to the transfer destination is submitted.
BeginCreateTextureImage(path) ==
    /\ oneShot.step = "idle"
    /\ Len(textureReturns) < MaxVariedTextures
    /\ oneShot' = CallTransition([NoOneShot EXCEPT !.path = path],
                                 "eUndefined", "eTransferDstOptimal", "copy")
    /\ UNCHANGED textureVars
    /\ OneShotFrame

\* transitionImageLayout called on an image of its own with any pair of layouts, as
\* createDepthResources and the other attachment lists do.
TransitionAnyImage ==
    /\ oneShot.step = "idle"
    /\ \E oldLayout \in ImageLayouts, newLayout \in ImageLayouts :
          oneShot' = CallTransition([NoOneShot EXCEPT !.layout = oldLayout],
                                    oldLayout, newLayout, "idle")
    /\ UNCHANGED textureVars
    /\ OneShotFrame

\* The GPU executes the submitted one-shot command buffer: the barrier puts the image
\* into its new layout.
GpuOneShotComplete ==
    /\ oneShot.pending
    /\ oneShot' = [oneShot EXCEPT !.pending = FALSE, !.layout = oneShot.newLayout,
                                  !.log = Append(@, [op |-> "executed"])]
    /\ UNCHANGED textureVars
    /\ OneShotFrame

\* The wait returned although the GPU had not finished the submission.
WaitIdleReturnsAtOnce(pending) == TRUE

\* graphicsQueue.waitIdle() of endSingleTimeCommands returns.
WaitIdleReturns(pending) == ~pending

\* endSingleTimeCommands returns and with it transitionImageLayout.
EndSingleTimeCommands ==
    /\ oneShot.step = "waitIdle"
    /\ WaitIdleReturns(oneShot.pending)
    /\ oneShot' = [oneShot EXCEPT !.step = oneShot.next,
                                  !.log = Append(@, [op |-> "waitIdle"])]
    /\ UNCHANGED textureVars
    /\ OneShotFrame

\* image.copyFrom(textureBuffer.allocInfo().pMappedData, imageSize), then the second
\* transitionImageLayout of createTextureImage.
CopyToImage ==
    /\ oneShot.step = "copy"
    /\ oneShot' = CallTransition(
                      [oneShot EXCEPT
                           !.log = Append(@, [op |-> "copyFrom", layout |-> oneShot.layout])],
                      "eTransferDstOptimal", "eShaderReadOnlyOptimal", "push")
    /\ UNCHANGED textureVars
    /\ OneShotFrame

\* textures.push_back(std::move(image)); return textures.size() - 1.
PushTexture ==
    /\ oneShot.step = "push"
    /\ textures' = CreateTextureImage(textures, oneShot.path)
    /\ textureReturns' = Append(textureReturns,
                                [path |-> oneShot.path, index |-> CreatedIndex(textures')])
    /\ oneShot' = [oneShot EXCEPT
                       !.step = "idle",
                       !.log = Append(@, [op |-> "push_back", layout |-> oneShot.layout,
                                           index |-> CreatedIndex(textures')])]
    /\ UNCHANGED textureDescriptors
    /\ OneShotFrame

NextOneShot ==
    \/ \E path \in TextureFiles : BeginCreateTextureImage(path)
    \/ TransitionAnyImage
    \/ GpuOneShotComplete
    \/ EndSingleTimeCommands
    \/ CopyToImage
    \/ PushTexture

\* Textures created and image layouts changed step by step.
SpecOneShot == InitTextures /\ [][NextOneShot]_vars

(* ---------------------------- the render pass -------------------------- *)

\* Position of a stage in the logical order of the pipeline stages the render pass
\* names.
StageRank(stage) ==
    LET StageOrder == <<"eEarlyFragmentTests", "eFragmentShader", "eLateFragmentTests",
                        "eColorAttachmentOutput">>
    IN CHOOSE k \in 1 .. Len(StageOrder) : StageOrder[k] = stage

\* createRenderPass: colorSubpass, lightSubpass and transparencySubpass by the
\* attachment indices they reference, with the depth and blend state of the pipeline
\* created for the subpass.
SubpassDescriptions ==
    <<[colorAttachments |-> {0, 1, 2}, inputAttachments |-> {},
       depthStencilAttachment |-> {3},
       depthTestEnable |-> TRUE, depthWriteEnable |-> TRUE, blendEnable |-> FALSE],
      [colorAttachments |-> {4}, inputAttachments |-> {0, 1, 2, 3},
       depthStencilAttachment |-> {},
       depthTestEnable |-> FALSE, depthWriteEnable |-> FALSE, blendEnable |-> TRUE],
      [colorAttachments |-> {4}, inputAttachments |-> {},
       depthStencilAttachment |-> {3},
       depthTestEnable |-> TRUE, depthWriteEnable |-> FALSE, blendEnable |-> TRUE]>>


\* createRenderPass: dependencyVec without startDependency, whose source is
\* vk::SubpassExternal: lightDependency and transparencyDependency.
SubpassDependencies ==
    {[srcSubpass |-> 0, dstSubpass |-> 1,
      srcStageMask |-> {"eColorAttachmentOutput", "eEarlyFragmentTests",
                        "eLateFragmentTests"},
      dstStageMask |-> {"eFragmentShader"},
      srcAccessMask |-> {"eDepthStencilAttachmentWrite", "eColorAttachmentWrite"},
      dstAccessMask |-> {"eInputAttachmentRead"}],
     [srcSubpass |-> 1, dstSubpass |-> 2,
      srcStageMask |-> {"eColorAttachmentOutput", "eEarlyFragmentTests",
                        "eLateFragmentTests"},
      dstStageMask |-> {"eFragmentShader"},
      srcAccessMask |-> {"eDepthStencilAttachmentWrite", "eColorAttachmentWrite"},
      dstAccessMask |-> {"eInputAttachmentRead"}]}

\* The attachment accesses the draws of subpass sp make: colour attachments are
\* written (and read when blended) in the colour-attachment output, input attachments
\* read in the fragment shader, the depth attachment tested in the early and written
\* in the late fragment tests.
SubpassAccesses(sp) ==
    LET d == SubpassDescriptions[sp + 1]
    IN {[subpass |-> sp, stage |-> "eColorAttachmentOutput",
         access |-> "eColorAttachmentWrite", attachment |-> a] : a \in d.colorAttachments}
       \cup {[subpass |-> sp, stage |-> "eColorAttachmentOutput",
              access |-> "eColorAttachmentRead", attachment |-> a] :
                 a \in IF d.blendEnable THEN d.colorAttachments ELSE {}}
       \cup {[subpass |-> sp, stage |-> "eFragmentShader",
              access |-> "eInputAttachmentRead", attachment |-> a] :
                 a \in d.inputAttachments}
       \cup {[subpass |-> sp, stage |-> "eEarlyFragmentTests",
              access |-> "eDepthStencilAttachmentRead", attachment |-> a] :
                 a \in IF d.depthTestEnable THEN d.depthStencilAttachment ELSE {}}
       \cup {[subpass |-> sp, stage |-> "eLateFragmentTests",
              access |-> "eDepthStencilAttachmentWrite", attachment |-> a] :
                 a \in IF d.depthWriteEnable THEN d.depthStencilAttachment ELSE {}}

RenderPassAccesses ==
    UNION {SubpassAccesses(sp) : sp \in 0 .. (Len(SubpassDescriptions) - 1)}

\* Access a may start: every access it depends on by a subpass dependency is done.
\* Vulkan execution dependency: the first scope holds the stages of the source mask
\* and the logically earlier ones, the second scope those of the destination mask and
\* the logically later ones.
MayExecute(a, executed) ==
    LET InFirstScope(stage, mask) == \E m \in mask : StageRank(stage) <= StageRank(m)
        InSecondScope(stage, mask) == \E m \in mask : StageRank(stage) >= StageRank(m)
    IN \A d \in SubpassDependencies :
           (d.dstSubpass = a.subpass /\ InSecondScope(a.stage, d.dstStageMask))
               => \A b \in SubpassAccesses(d.srcSubpass) :
                      InFirstScope(b.stage, d.srcStageMask) => b \in executed

\* Vulkan memory dependency from the write b to the access a: a subpass dependency
\* whose source scopes hold the stage and access of b and whose destination scopes
\* hold the stage and access of a. The access scopes are the masks as given.
MemoryDependency(b, a) ==
    \E d \in SubpassDependencies :
        /\ d.srcSubpass = b.subpass
        /\ d.dstSubpass = a.subpass
        /\ b.stage \in d.srcStageMask
        /\ b.access \in d.srcAccessMask
        /\ a.stage \in d.dstStageMask
        /\ a.access \in d.dstAccessMask

\* The GPU begins the render pass of a submitted command buffer on the framebuffer of
\* an image.
GpuBeginRenderPass ==
    /\ ~renderPassRun.active
    /\ \E i \in Images :
          renderPassRun' = [active |-> TRUE, image |-> i, executed |-> {}, hazards |-> {}]
    /\ UNCHANGED <<schedVars, swapVars, meshVars, sceneVars, lightVars, inputVars,
                   textureVars, callbackVars, oneShot, lastDelObject, flattenRun>>

\* The GPU performs one attachment access of the running render pass. HazardsOf: the
\* writes of earlier subpasses to the same attachment that the access runs on without
\* a memory dependency.
GpuExecuteAccess ==
    /\ renderPassRun.active
    /\ \E a \in RenderPassAccesses \ renderPassRun.executed :
          LET HazardsOf ==
                  {<<b, a>> : b \in {w \in RenderPassAccesses :
                                         /\ w.access \in {"eColorAttachmentWrite",
                                                           "eDepthStencilAttachmentWrite"}
                                         /\ w.subpass < a.subpass
                                         /\ w.attachment = a.attachment
                                         /\ ~(/\ w \in renderPassRun.executed
                                              /\ MemoryDependency(w, a))}}
          IN /\ MayExecute(a, renderPassRun.executed)
             /\ renderPassRun' = [renderPassRun EXCEPT !.executed = @ \cup {a},
                                                       !.hazards = @ \cup HazardsOf]
    /\ UNCHANGED <<schedVars, swapVars, meshVars, sceneVars, lightVars, inputVars,
                   textureVars, callbackVars, oneShot, lastDelObject, flattenRun>>

\* The render pass instance is finished.
GpuEndRenderPass ==
    /\ renderPassRun.active
    /\ renderPassRun.executed = RenderPassAccesses
    /\ renderPassRun' = [renderPassRun EXCEPT !.active = FALSE]
    /\ UNCHANGED <<schedVars, swapVars, meshVars, sceneVars, lightVars, inputVars,
                   textureVars, callbackVars, oneShot, lastDelObject, flattenRun>>

NextRenderPass == GpuBeginRenderPass \/ GpuExecuteAccess \/ GpuEndRenderPass

SpecRenderPass == Init /\ [][NextRenderPass]_vars

(* ------------------------------- claims ------------------------------- *)

\* C1: frame-slot backpressure. A step changes the command buffer or the uniform
\* buffer of slot s, or records into the current slot, only when the fence of s is
\* signalled and no submission of s is still on the GPU; and while the fence of the
\* current slot is unsignalled drawFrame stays at its fence wait and touches neither.
C1_Backpressure ==
    [][/\ \A s \in Slots :
              (\/ commandBuffers'[s] # commandBuffers[s]
               \/ uniformBuffers'[s] # uniformBuffers[s]
               \/ (s = currentFrame /\ pc = "acquired" /\ pc' = "submit"))
              => (inFlightFences[s] /\ ~Pending(s))
       /\ (pc = "wait" /\ ~inFlightFences[currentFrame])
              => (pc' = "wait" /\ UNCHANGED <<commandBuffers, uniformBuffers>>)
       /\ (pc' \in {"ratecap", "dispatch", "acquire", "acquired", "submit"})
              => ~\E j \in 1 .. Len(gpuQueue') : gpuQueue'[j].slot = currentFrame']_vars

\* C1 witness: slot 0 is recorded again, after its fence wait, while the frame of
\* slot 1 is still on the GPU.
C1_Witness ==
    /\ pc = "submit"
    /\ currentFrame = 0
    /\ Pending(1)
    /\ commandBuffers[0].recorded

\* C3: a frame whose acquisition reports out-of-date or suboptimal, or that finds the
\* resize flag set, goes to the swap-chain rebuild and returns from it: nothing is
\* submitted or presented, the fence of the slot stays signalled, the slot index stays,
\* and the swap chain is a new one.
C3_AbortedFrame ==
    [][/\ (/\ pc = "acquired"
           /\ pc' # pc
           /\ \/ nextImagePair.result \in {"eErrorOutOfDateKHR", "eSuboptimalKHR"}
              \/ framebufferResized)
          => /\ pc' = "recreate"
             /\ inFlightFences[currentFrame]
             /\ UNCHANGED <<gpuQueue, presentResult, inFlightFences, currentFrame,
                            commandBuffers>>
       /\ (pc = "recreate" /\ pc' # pc)
          => /\ pc' = "poll"
             /\ swapChain'.gen = swapChain.gen + 1
             /\ inFlightFences[currentFrame]
             /\ presentResult = "none"
             /\ gpuQueue = <<>>
             /\ UNCHANGED <<gpuQueue, presentResult, inFlightFences, currentFrame,
                            commandBuffers>>]_vars

\* C3 witness: drawFrame has returned from an aborted frame whose acquisition was
\* suboptimal, with a rebuilt swap chain.
C3_Witness ==
    /\ pc = "poll"
    /\ nextImagePair.result = "eSuboptimalKHR"
    /\ swapChain.gen > 0
    /\ presentResult = "none"
    /\ inFlightFences[currentFrame]

\* C4: at most MAX_FRAMES_IN_FLIGHT submitted frames are unfinished on the GPU.
C4_BoundedInFlight == Len(gpuQueue) <= 2

\* C4 witness: both frame slots are in flight.
C4_Witness == Len(gpuQueue) = 2 /\ Pending(0) /\ Pending(1)

\* C5: the slot index is 0 or 1; the step that presents a frame advances it by one
\* modulo 2 and no other step changes it.
C5_SlotIndex ==
    [][/\ currentFrame \in {0, 1}
       /\ currentFrame' \in {0, 1}
       /\ IF pc = "present" /\ pc' = "poll"
          THEN currentFrame' = (currentFrame + 1) % 2
          ELSE currentFrame' = currentFrame]_vars

\* C5 witness: the slot index has gone round: slot 0 is current again after the
\* frames of slot 0 and slot 1 were presented.
C5_Witness ==
    /\ pc = "poll"
    /\ currentFrame = 0
    /\ commandBuffers[0].recorded
    /\ commandBuffers[1].recorded
    /\ presentResult # "none"

\* C6: the frame-rate cap. A drawFrame call that finds less than one frame interval
\* elapsed since lastFrameTime returns at once and changes nothing: no callback round,
\* no cursor reset, no acquisition, no fence reset, no recording, submission or present,
\* the same lastFrameTime and slot index.
C6_RateCapSkip ==
    [][(pc = "ratecap" /\ pc' # pc /\ now - lastFrameTime < TicksPerFrame)
       => /\ pc' = "poll"
          /\ UNCHANGED <<dispatchIndex, cursorOffset, pressedKeys, nextImagePair,
                         imageAvailableSemaphores, inFlightFences, commandBuffers,
                         uniformBuffers, gpuQueue, presentResult, lastFrameTime,
                         currentFrame, swapVars, sceneVars, lightVars>>]_vars

\* C6 witness: after a frame was drawn, a later drawFrame call has returned without
\* acquiring or presenting anything, the interval not yet over.
C6_Witness ==
    /\ pc = "poll"
    /\ lastFrameTime > 0
    /\ now - lastFrameTime < TicksPerFrame
    /\ nextImagePair = NoImagePair
    /\ presentResult = "none"

\* C7: every framebuffer references only attachments created for the current swap
\* chain, with its extent.
C7_FramebuffersRebuilt ==
    \A i \in 1 .. Len(swapChainFramebuffers) :
        LET fb == swapChainFramebuffers[i]
        IN /\ fb.view.gen = swapChain.gen
           /\ fb.extent = swapChain.extent
           /\ \A a \in {fb.color, fb.emissive, fb.normal, fb.depth} :
                  a.gen = swapChain.gen /\ a.extent = swapChain.extent

\* C8: an out-of-date result, of the acquisition or of the present, leads drawFrame
\* into the swap-chain rebuild.
C8_OutOfDateRebuilds ==
    [][/\ (pc = "acquired" /\ pc' # pc /\ nextImagePair.result = "eErrorOutOfDateKHR")
          => pc' = "recreate"
       /\ (pc = "present" /\ pc' # pc /\ presentResult' = "eErrorOutOfDateKHR")
          => pc' = "recreate"]_vars

\* C2: the shared vertex, index and light buffers are replaced or written only while
\* no submitted frame is unfinished on the GPU.
C2_SharedBuffersQuiescent ==
    [][(\/ vertexBuffer' # vertexBuffer
        \/ indexBuffer' # indexBuffer
        \/ ssboBuffer' # ssboBuffer)
       => gpuQueue = <<>>]_vars

\* The indices of node n lie in the index buffer ib from position first on, count of
\* them.
PlacedAt(ib, n, first, count) ==
    \A k \in 1 .. count :
        /\ first + k <= Len(ib.owner)
        /\ ib.owner[first + k] = n

\* C9: every indexed draw of the frame just recorded starts at the position at which
\* the latest upload placed the indices of its node.
C9_DrawOffsetsMatchUpload ==
    pc = "submit" =>
        \A d \in 1 .. Len(commandBuffers[currentFrame].draws) :
            LET draw == commandBuffers[currentFrame].draws[d]
            IN draw.subpass # 1 =>
                   PlacedAt(indexBuffer, draw.node, draw.firstIndex, draw.indexCount)

RECURSIVE VerticesBefore(_, _)
\* Total vertex count of the nodes before position j of the flattened list.
VerticesBefore(flat, j) ==
    IF j <= 1 THEN 0 ELSE vertices[flat[j - 1]] + VerticesBefore(flat, j - 1)

RECURSIVE IndicesBefore(_, _)
\* Total index count of the nodes before position j of the flattened list.
IndicesBefore(flat, j) ==
    IF j <= 1 THEN 0 ELSE Len(indices[flat[j - 1]]) + IndicesBefore(flat, j - 1)

\* The index buffer ib and the vertex buffer vb hold, for every node of the flattened
\* list, its own indices plus the vertex count of all nodes before it, each addressing
\* the vertex of the same node it named.
IndicesRebased(objs, ch, ib, vb) ==
    LET flat == Flatten(objs, ch)
    IN /\ Len(ib.indices) = IndicesBefore(flat, Len(flat) + 1)
       /\ \A j \in 1 .. Len(flat) : \A k \in 1 .. Len(indices[flat[j]]) :
              LET placed == ib.indices[IndicesBefore(flat, j) + k]
              IN /\ placed = indices[flat[j]][k] + VerticesBefore(flat, j)
                 /\ vb.vertices[placed + 1] = <<flat[j], indices[flat[j]][k]>>

\* C10: after every upload, in the combined index buffer every node's indices are its
\* own indices plus the vertex count of all nodes before it in the flattened order, and
\* every rebased index addresses the vertex of the same node it named.
C10_IndicesRebased ==
    [][indexBuffer' # indexBuffer
       => IndicesRebased(objects', children', indexBuffer', vertexBuffer')]_vars

\* C10 witness: two roots with 3 and 4 indices were uploaded, the second node's
\* indices offset by the 3 vertices of the first.
C10_Witness ==
    /\ Len(objects) = 2
    /\ indices[objects[1]] = <<0, 1, 2>>
    /\ indices[objects[2]] = <<0, 1, 1, 0>>
    /\ indexBuffer.indices = <<0, 1, 2, 3, 4, 4, 3>>

\* The scene is a tree: no node is a root twice, no root is a child, no node is a
\* child twice.
SceneIsTree(objs, ch) ==
    /\ \A i, j \in 1 .. Len(objs) : objs[i] = objs[j] => i = j
    /\ \A p \in Nodes : \A k \in 1 .. Len(ch[p]) :
           /\ \A j \in 1 .. Len(objs) : objs[j] # ch[p][k]
           /\ \A q \in Nodes : \A m \in 1 .. Len(ch[q]) :
                  ch[q][m] = ch[p][k] => (q = p /\ m = k)

\* The nodes of the scene: the roots and everything below them.
SceneNodes(objs, ch) ==
    {n \in Nodes : \E j \in 1 .. Len(objs) : Reaches(objs[j], n, ch, NumNodes)}

C12_DepthFirst ==
    SceneIsTree(objects, children) =>
        LET flat == Flatten(objects, children)
        IN \A i, j \in 1 .. Len(flat) :
               (i < j /\ Reaches(flat[i], flat[j], children, NumNodes))
               => \A m \in i .. j : Reaches(flat[i], flat[m], children, NumNodes)

RECURSIVE ChildrenInOrder(_, _, _)
\* The child lists of the first k entries of the list, one after the other.
ChildrenInOrder(list, ch, k) ==
    IF k = 0 THEN <<>> ELSE ChildrenInOrder(list, ch, k - 1) \o ch[list[k]]

\* C12 amended: the flattened list is in breadth-first order: the roots in list order,
\* then the children of every entry of the list, entry by entry, in child-list order.
C12_BreadthFirst ==
    LET flat == Flatten(objects, children)
    IN flat = objects \o ChildrenInOrder(flat, children, Len(flat))

\* C12 witness: two roots of which the first has a child, uploaded: the child comes
\* behind the second root.
C12_Witness ==
    /\ Len(objects) = 2
    /\ Len(children[objects[1]]) = 1
    /\ children[objects[2]] = <<>>
    /\ objects[1] # objects[2]
    /\ Flatten(objects, children) = <<objects[1], objects[2], children[objects[1]][1]>>
    /\ vertexBuffer.handle # 0

\* The nodes the command buffer of the current slot draws; the full-screen triangle of
\* the lighting subpass belongs to no node.
DrawnNodes ==
    {commandBuffers[currentFrame].draws[k].node :
         k \in 1 .. Len(commandBuffers[currentFrame].draws)} \ {0}

\* C13 as stated: the draw list recorded for a frame is the list of the scene as it was
\* before the callbacks of that frame ran, so what a callback adds or removes during
\* the dispatch shows only in the next frame.
C13_MutationsDeferred ==
    (pc = "submit" /\ passStart.running)
    => DrawnNodes = SceneNodes(passStart.objects, passStart.children)

\* C13 amended: the draw list recorded for a frame is flattened after the callbacks of
\* that frame have run, so it holds exactly the nodes of the scene as the callbacks
\* left it.
C13_MutationsVisibleSameFrame ==
    (pc = "submit" /\ passStart.running)
    => DrawnNodes = SceneNodes(objects, children)

\* C13 witness: a frame has been recorded whose callbacks added a node to the scene,
\* and the node is drawn in that frame.
C13_Witness ==
    /\ pc = "submit"
    /\ passStart.running
    /\ \E n \in SceneNodes(objects, children) :
          /\ n \notin SceneNodes(passStart.objects, passStart.children)
          /\ n \in DrawnNodes

\* The callbacks 1 .. k of a node, each once, in the order of their registration.
EachOnceInOrder(k) == [j \in 1 .. k |-> j]

\* C14: when the callback loop of a frame is through, every node of the scene, root or
\* nested child, has had each of its registered callbacks called exactly once, in
\* registration order.
C14_EveryNodeDispatched ==
    (pc = "acquire" /\ passStart.running)
    => \A n \in SceneNodes(passStart.objects, passStart.children) :
           invoked[n] = EachOnceInOrder(passStart.frameCallbacks[n])

\* C15: a root list or a callback list that grows during the callback loop does not
\* break the iteration: no invalid element is visited, and every root and callback
\* present when the loop began is called exactly once.
C15_GrowthDuringDispatch ==
    /\ ~danglingVisit
    /\ (pc = "acquire" /\ passStart.running)
       => \A i \in 1 .. Len(passStart.objects) :
              invoked[passStart.objects[i]] =
                  EachOnceInOrder(passStart.frameCallbacks[passStart.objects[i]])

\* C16 as stated: texture indices count up from 0 for the application: its k-th
\* createTextureImage returns k - 1, so loading A, B, A yields 0, 1, 2.
C16_IndicesFromZero ==
    \A i \in 1 .. Len(textureReturns) : textureReturns[i].index = i - 1

\* C16 amended: every createTextureImage returns the number of textures created
\* before it, the default texture of initVulkan at index 0 included; an index is
\* greater than every index returned before, keeps its image, and a file loaded again
\* gets a new index: the application's loads A, B, A yield 1, 2, 3.
C16_IndicesAppendOnly ==
    /\ \A i \in 1 .. Len(textureReturns) :
          /\ textureReturns[i].index = i
          /\ textureReturns[i].index < Len(textures)
          /\ textures[textureReturns[i].index + 1] = textureReturns[i].path
    /\ \A i, j \in 1 .. Len(textureReturns) :
          i < j => textureReturns[i].index < textureReturns[j].index
    /\ textures[1] = "uv"

\* C16 witness: the application has loaded A, then B, then A again.
C16_Witness ==
    /\ Len(textureReturns) = 3
    /\ textureReturns[1].path = "A"
    /\ textureReturns[2].path = "B"
    /\ textureReturns[3].path = "A"
    /\ textureReturns[3].index = 3

\* C17: no descriptor write goes to an array slot at or beyond the capacity of the
\* texture descriptor array.
C17_DescriptorWritesInRange ==
    \A e \in textureDescriptors : e < maxTextures

\* C18: the live count of the light buffer never exceeds the capacity of the light
\* array and no light is written outside the array.
C18_LightsWithinCapacity ==
    /\ lights.lightCount <= LightCapacity
    /\ lights.pastEnd = <<>>

\* C19: after any interleaving of setAmbientLight and at most 32 addLight calls the
\* light buffer holds the ambient term of the last setAmbientLight, the number of
\* addLight calls as its count, and in entry i the position, colour and brightness of
\* the i-th light added.
C19_LightRoundTrip ==
    LET added == lightCalls.added
        buf == ssboBuffer.content
    IN Len(added) <= LightCapacity =>
          /\ buf.lightCount = Len(added)
          /\ Len(buf.lights) = Len(added)
          /\ \A i \in 1 .. Len(added) :
                /\ buf.lights[i].position[1] = added[i].position
                /\ buf.lights[i].color = <<added[i].color, added[i].brightness>>
          /\ lightCalls.ambient # <<>> =>
                buf.ambient = <<lightCalls.ambient[1].color, lightCalls.ambient[1].brightness>>
          /\ lightCalls.ambient = <<>> => buf.ambient = <<0, 0>>

\* C19 witness: the ambient light was set, two different lights were added and the
\* ambient light was set anew; the buffer holds all of it.
C19_Witness ==
    /\ ssboBuffer.written
    /\ Len(lightCalls.added) = 2
    /\ lightCalls.added[1] # lightCalls.added[2]
    /\ lightCalls.added[2].brightness = 2
    /\ lightCalls.ambient = <<[color |-> 2, brightness |-> 1]>>
    /\ ssboBuffer.content.lights[2].color = <<1, 2>>
    /\ ssboBuffer.content.ambient = <<2, 1>>

\* C20: the staging buffer of an upload is at least as large as the vertex data and as
\* the index data copied through it, which fill the vertex and the index buffer of
\* that upload.
C20_StagingHoldsTransfers ==
    /\ stagingBuffer.size >= Len(vertexBuffer.vertices) * SizeofVertex
    /\ stagingBuffer.size >= Len(indexBuffer.indices) * SizeofIndex

\* Root number i of the list has had its callbacks called in the running pass.
DispatchedInPass(i) == pc = "dispatch" /\ i <= dispatchIndex

C22_HeldKeysExact ==
    pc = "dispatch" => pressedKeys = heldKeys

\* The keys handleDebugModes erases from the set.
DebugChordKeys == {"1", "2", "3", "4", "C"}

\* C22 amended: the key set holds only keys whose last event was a press; the keys of
\* that kind it lacks are keys of debug chords, and apart from key events it changes
\* only when handleDebugModes runs after the callback loop with RIGHT_CONTROL in it.
C22_HeldKeysLessDebugChords ==
    [][/\ pressedKeys' \subseteq heldKeys'
       /\ (heldKeys' \ pressedKeys') \subseteq DebugChordKeys
       /\ (heldKeys' = heldKeys /\ pressedKeys' # pressedKeys)
          => /\ pc = "dispatch" /\ pc' = "acquire"
             /\ "RIGHT_CONTROL" \in pressedKeys
             /\ pressedKeys' \subseteq pressedKeys]_vars

\* C22 witness: RIGHT_CONTROL and 4 are both down, and the callbacks of the frame are
\* handed a set without the 4.
C22_Witness ==
    /\ pc = "dispatch"
    /\ heldKeys = {"RIGHT_CONTROL", "4"}
    /\ pressedKeys = {"RIGHT_CONTROL"}
    /\ debugFeatures.viewMode = "DEPTH"

\* The product a * b of two model matrices: b is applied first.
MatrixProduct(a, b) ==
    [scale |-> a.scale * b.scale,
     offset |-> <<a.scale * b.offset[1] + a.offset[1], a.scale * b.offset[2] + a.offset[2]>>]

RECURSIVE ComposedMatrix(_, _)
\* The local matrix of node n composed with the matrices of its ancestors, the
\* identity standing in above a node without parent.
ComposedMatrix(n, fuel) ==
    IF parent[n] = 0 \/ fuel = 0
    THEN ModelMatrix(transform[n])
    ELSE MatrixProduct(ComposedMatrix(parent[n], fuel - 1), ModelMatrix(transform[n]))

\* C23: the model matrix a node is drawn with is its local matrix composed with the
\* matrices of all its ancestors.
C23_DrawnWithComposedMatrix ==
    pc = "submit" =>
        \A k \in 1 .. Len(commandBuffers[currentFrame].draws) :
            LET d == commandBuffers[currentFrame].draws[k]
            IN d.node # 0 => d.model = ComposedMatrix(d.node, NumNodes)

\* The list without its entry at position j.
WithoutEntry(list, j) == SubSeq(list, 1, j - 1) \o SubSeq(list, j + 1, Len(list))

\* C24: a step that removes a root takes one entry out of the root list and leaves
\* every child list, every parent pointer and every mesh as it was; the flatten after
\* it holds exactly the nodes still reachable from the roots that are left.
C24_DelObjectOnlyRoot ==
    [][Len(objects') < Len(objects)
       => /\ \E j \in 1 .. Len(objects) : objects' = WithoutEntry(objects, j)
          /\ children' = children
          /\ parent' = parent
          /\ UNCHANGED meshVars
          /\ LET flat == Flatten(objects', children')
             IN {flat[k] : k \in 1 .. Len(flat)} = SceneNodes(objects', children')]_vars

\* C24 witness: in the running callback loop a root that has a child was removed; the
\* child is still in its child list and still points to it.
C24_Witness ==
    /\ pc = "dispatch"
    /\ passStart.running
    /\ \E o \in Nodes :
          /\ \E j \in 1 .. Len(passStart.objects) : passStart.objects[j] = o
          /\ \A j \in 1 .. Len(objects) : objects[j] # o
          /\ passStart.children[o] # <<>>
          /\ children[o] = passStart.children[o]
          /\ parent[children[o][1]] = o

\* C28: the image-available semaphore handed to acquireNextImage carries no signal
\* that no submission has waited for.
C28_SemaphoreFreeAtAcquire ==
    pc = "acquire" => ~imageAvailableSemaphores[currentFrame]

\* What a drawFrame call that reaches presentation does, in order, on slot s with the
\* acquired image i; the image-available semaphore carries no earlier signal when
\* it is handed to acquireNextImage, so the submission's wait on it ends only when
\* image i is available.
FrameEventsInOrder(s, i) ==
    <<[op |-> "waitForFences", fence |-> s],
      [op |-> "acquireNextImage", semaphore |-> s, signalled |-> FALSE],
      [op |-> "resetFences", fence |-> s],
      [op |-> "recordCommandBuffer", commandBuffer |-> s, image |-> i],
      [op |-> "updateUniformBuffer", uniformBuffer |-> s],
      [op |-> "submit",
       info |-> [waitSemaphore |-> s, commandBuffer |-> s, signalSemaphore |-> s,
                 fence |-> s]],
      [op |-> "presentKHR", info |-> [waitSemaphore |-> s, image |-> i]],
      [op |-> "advance", currentFrame |-> (s + 1) % MAX_FRAMES_IN_FLIGHT]>>

\* C26: a drawFrame call that presents has waited for the slot's fence, acquired an
\* image signalling the slot's image-available semaphore, reset the fence, recorded,
\* written the uniform buffer, submitted (waiting on image-available, signalling
\* render-finished and the fence), presented waiting on render-finished and advanced
\* the slot, in this order; the submission's wait is released by this acquire only.
C26_FrameEventOrder ==
    (frameEvents # <<>> /\ frameEvents[Len(frameEvents)].op = "advance")
        => \E s \in Slots, i \in Images : frameEvents = FrameEventsInOrder(s, i)

\* C27: no fence wait of the frame loop lasts for ever. A fence is unsignalled only
\* while a submission that signals it is on the GPU, or between its reset and the
\* submission of the same drawFrame call; and whenever drawFrame is at its fence wait,
\* the fence of the current slot is signalled or such a submission is pending.
C27_FenceNeverStuck ==
    /\ \A s \in Slots :
           ~inFlightFences[s] => (Pending(s) \/ (pc = "submit" /\ s = currentFrame))
    /\ pc = "wait" => (inFlightFences[currentFrame] \/ Pending(currentFrame))

\* C27 witness: drawFrame is held at the wait on an unsignalled fence whose submission
\* the GPU has not finished.
C27_Witness ==
    /\ pc = "wait"
    /\ ~inFlightFences[currentFrame]
    /\ Pending(currentFrame)

\* C29: every array access of a recording is in bounds: the command buffer and the
\* UBO and light-subpass descriptor sets are indexed below the number allocated, the
\* framebuffer by an index below the number of framebuffers.
C29_RecordingIndicesInBounds ==
    \A s \in Slots :
        commandBuffers[s].recorded
            => /\ s < CommandBufferCount
               /\ commandBuffers[s].descriptorSetUBO < DescriptorSetCount
               /\ commandBuffers[s].descriptorSetLightSubpass < DescriptorSetCount
               /\ commandBuffers[s].image < Len(swapChainFramebuffers)

\* C30: the recording of a frame draws every entry of the flattened node list exactly
\* once, an opaque node in the geometry subpass and a transparent node in the
\* transparency subpass; the lighting subpass holds exactly one draw, of 3 vertices,
\* behind every opaque draw and before every transparent draw.
C30_EveryNodeDrawnOnce ==
    pc = "submit" =>
        LET d == commandBuffers[currentFrame].draws
            all == Flatten(objects, children)
        IN /\ \A n \in Nodes :
                  Cardinality({k \in 1 .. Len(d) : d[k].node = n})
                      = Cardinality({j \in 1 .. Len(all) : all[j] = n})
           /\ \E l \in 1 .. Len(d) :
                  /\ d[l].subpass = 1
                  /\ d[l].node = 0
                  /\ d[l].indexCount = 3
                  /\ \A k \in (1 .. Len(d)) \ {l} :
                         /\ d[k].node \in Nodes
                         /\ d[k].subpass = (IF transparent[d[k].node] THEN 2 ELSE 0)
                         /\ (k < l) = (d[k].subpass = 0)

\* C30 witness: a recorded frame with an opaque and a transparent node, one of them a
\* child.
C30_Witness ==
    /\ pc = "submit"
    /\ \E k \in 1 .. Len(commandBuffers[currentFrame].draws) :
           commandBuffers[currentFrame].draws[k].subpass = 0
    /\ \E k \in 1 .. Len(commandBuffers[currentFrame].draws) :
           commandBuffers[currentFrame].draws[k].subpass = 2
    /\ \E n \in Nodes : children[n] # <<>>
    /\ Len(commandBuffers[currentFrame].draws) = Len(Flatten(objects, children)) + 1

\* C31: the subpass dependencies order the memory accesses of the three subpasses:
\* the lighting subpass reads its input attachments only behind a memory dependency
\* on the geometry subpass's colour and depth writes to them, and the transparency
\* subpass reads and writes the output attachment only behind a memory dependency on
\* the lighting subpass's write to it.
C31_SubpassAccessesOrdered ==
    \A h \in renderPassRun.hazards :
        ~(\/ (h[1].subpass = 0 /\ h[2].subpass = 1 /\ h[2].access = "eInputAttachmentRead")
          \/ (h[1].subpass = 1 /\ h[2].subpass = 2 /\ h[2].attachment = 4))

\* The geometry to lighting half of C31.
GeometryBeforeLighting ==
    \A h \in renderPassRun.hazards :
        ~(h[1].subpass = 0 /\ h[2].subpass = 1 /\ h[2].access = "eInputAttachmentRead")

\* What createTextureImage does from its first layout transition on, the texture
\* getting the index i.
TextureCreationInOrder(i) ==
    <<[op |-> "submit", oldLayout |-> "eUndefined", newLayout |-> "eTransferDstOptimal"],
      [op |-> "executed"],
      [op |-> "waitIdle"],
      [op |-> "copyFrom", layout |-> "eTransferDstOptimal"],
      [op |-> "submit", oldLayout |-> "eTransferDstOptimal",
       newLayout |-> "eShaderReadOnlyOptimal"],
      [op |-> "executed"],
      [op |-> "waitIdle"],
      [op |-> "push_back", layout |-> "eShaderReadOnlyOptimal", index |-> i]>>

\* The layout pairs transitionImageLayout accepts.
SupportedTransitions ==
    {<<"eUndefined", "eTransferDstOptimal">>,
     <<"eTransferDstOptimal", "eShaderReadOnlyOptimal">>,
     <<"eUndefined", "eDepthStencilAttachmentOptimal">>,
     <<"eUndefined", "eColorAttachmentOptimal">>}

\* C32: texture creation runs transition to transfer-destination, copy, transition to
\* shader-read-only, append, return of the new index, one after the other; the CPU
\* goes on only when the GPU has finished the one-shot submission of the step; and a
\* transition of any other layout pair throws with nothing submitted.
C32_TextureCreationSequential ==
    /\ oneShot.path # ""
           => \E i \in 0 .. Len(textures) :
                  /\ oneShot.log = SubSeq(TextureCreationInOrder(i), 1, Len(oneShot.log))
                  /\ Len(oneShot.log) = 8
                         => (i = Len(textures) - 1 /\ textures[i + 1] = oneShot.path
                             /\ textureReturns[Len(textureReturns)].index = i)
    /\ oneShot.pending => oneShot.step = "waitIdle"
    /\ \A k \in 1 .. Len(oneShot.log) :
           /\ oneShot.log[k].op = "submit"
                  => <<oneShot.log[k].oldLayout, oneShot.log[k].newLayout>>
                         \in SupportedTransitions
           /\ oneShot.log[k].op = "throw"
                  => /\ <<oneShot.log[k].oldLayout, oneShot.log[k].newLayout>>
                            \notin SupportedTransitions
                     /\ Len(oneShot.log) = 1
                     /\ ~oneShot.pending

\* C32 witness: a second texture has gone through all the steps and has its index.
C32_Witness ==
    /\ oneShot.step = "idle"
    /\ oneShot.path # ""
    /\ Len(oneShot.log) = 8
    /\ Len(textureReturns) = 2

\* transitionImageLayout has thrown for a layout pair it does not know.
TransitionRefused ==
    oneShot.log # <<>> /\ oneShot.log[1].op = "throw"

\* C33: every per-image attachment list has as many entries as the swap chain has
\* images, and depthBuffers[i] is the depth image created for image i of the current
\* swap chain.
C33_AttachmentListsMatchImages ==
    /\ \A list \in {depthBuffers, emissiveBuffers, normalBuffers, intermediateColorBuffers} :
           Len(list) = Len(swapChainImageViews)
    /\ \A i \in 1 .. Len(swapChainImageViews) :
           /\ swapChainImageViews[i].gen = swapChain.gen
           /\ i <= Len(depthBuffers)
           /\ depthBuffers[i] = NewImage(swapChain.gen, swapChain.extent)

\* C34: the swap chain, its image views and the framebuffers are replaced only while
\* no submitted frame is unfinished on the GPU.
C34_RebuildOnIdleDevice ==
    [][(\/ swapChain' # swapChain
        \/ swapChainImageViews' # swapChainImageViews
        \/ swapChainFramebuffers' # swapChainFramebuffers)
       => gpuQueue = <<>>]_vars

\* C34 witness: the swap chain was rebuilt after both frame slots had been submitted.
C34_Witness ==
    /\ swapChain.gen > 0
    /\ commandBuffers[0].recorded
    /\ commandBuffers[1].recorded
    /\ pc = "poll"
    /\ presentResult = "none"

\* C35: a resize notification is honoured by the next drawFrame call that the
\* frame-rate cap does not skip. With the flag set such a call gives the frame up after
\* the acquisition, clears the flag and rebuilds the swap chain; it never records,
\* submits or presents; and no other step clears the flag.
C35_ResizeHonoured ==
    [][/\ (pc = "acquired" /\ pc' # pc /\ framebufferResized)
              => (pc' = "recreate" /\ ~framebufferResized')
       /\ (pc = "recreate" /\ pc' # pc)
              => (pc' = "poll" /\ swapChain'.gen = swapChain.gen + 1)
       /\ (pc \in {"submit", "present"}) => ~framebufferResized
       /\ (framebufferResized /\ ~framebufferResized')
              => (pc = "acquired" /\ pc' = "recreate")]_vars

\* C35 witness: a drawFrame call whose acquisition succeeded has rebuilt the swap
\* chain for a resize and left the flag clear.
C35_Witness ==
    /\ pc = "poll"
    /\ swapChain.gen > 0
    /\ nextImagePair.result = "eSuccess"
    /\ presentResult = "none"
    /\ ~framebufferResized

\* C36: when the callback loop of a frame is through, every root that was in the root
\* list when the loop began and is still in it has had each of its callbacks called
\* exactly once, whatever roots the callbacks removed.
C36_SurvivingRootsDispatchedOnce ==
    (pc = "acquire" /\ passStart.running)
    => \A i \in 1 .. Len(passStart.objects) :
           InRoots(passStart.objects[i])
               => invoked[passStart.objects[i]] =
                      [j \in 1 .. passStart.frameCallbacks[passStart.objects[i]] |-> j]

\* C37: the passedSeconds values handed to a node cover disjoint intervals: their sum
\* never exceeds the time that has passed on the clock since the renderer took its
\* first lastFrameTime.
C37_ElapsedTimeNotCountedTwice ==
    \A n \in Nodes : secondsDelivered[n] <= now

\* The same for runs in which no frame is given up.
NoRebuildNoDoubleCount ==
    swapChain.gen = 0 /\ pc # "recreate" => C37_ElapsedTimeNotCountedTwice

\* The number of entries of objs that are n.
Occurrences(objs, n) == Cardinality({j \in 1 .. Len(objs) : objs[j] = n})

\* C38: delObject of an object that is not a root leaves the root list as it was; of an
\* object that is a root, once or several times, it removes exactly one occurrence and
\* leaves every other entry where it stood.
C38_DelObjectRemovesOnlyItsObject ==
    lastDelObject.called
    => LET d == lastDelObject
       IN IF Occurrences(d.before, d.obj) = 0
          THEN ~d.crashed /\ d.after = d.before
          ELSE /\ ~d.crashed
               /\ Len(d.after) = Len(d.before) - 1
               /\ \A n \in Nodes :
                      Occurrences(d.after, n)
                          = Occurrences(d.before, n) - (IF n = d.obj THEN 1 ELSE 0)
               /\ SelectSeq(d.after, LAMBDA x : x # d.obj)
                      = SelectSeq(d.before, LAMBDA x : x # d.obj)

\* The half of C38 about objects that are roots.
DelObjectOfRootRemovesOne ==
    (lastDelObject.called /\ Occurrences(lastDelObject.before, lastDelObject.obj) > 0)
        => C38_DelObjectRemovesOnlyItsObject

\* delObject has removed one of two occurrences of a root.
RemovedOneOfTwo ==
    /\ lastDelObject.called
    /\ Occurrences(lastDelObject.before, lastDelObject.obj) = 2
    /\ ~lastDelObject.crashed

\* C39: flattening terminates for every set of child links the application has set:
\* the loop never appends an entry that lies deeper below its root than there are
\* nodes. (Such an entry has a node twice on its chain of parents; the loop that
\* walked round the links once walks round them again, and its list never ends.)
C39_FlattenTerminates ==
    \A k \in 1 .. Len(flattenRun.depth) : flattenRun.depth[k] <= NumNodes

\* No node is reachable from one of its own children.
AcyclicLinks ==
    \A n \in Nodes : \A k \in 1 .. Len(children[n]) :
        ~Reaches(children[n][k], n, children, NumNodes)

\* The part of C39 about links without a cycle, shared children and roots that are
\* children included: the loop ends.
FlattenOfAcyclicLinksTerminates ==
    (flattenRun.running /\ AcyclicLinks) ~> ~flattenRun.running

\* A loop has ended on a list that holds a node twice: a child of two parents, or a
\* root that is also a child.
FlattenedSharedNode ==
    /\ ~flattenRun.running
    /\ flattenRun.i > 0
    /\ \E n \in Nodes : Occurrences(flattenRun.all, n) >= 2

\* The bit of PushConstantsDebugFlags that belongs to a debug view mode.
ViewModeBits(mode) ==
    CASE mode = "OFF" -> {}
      [] mode = "NORMALS" -> {"COLOR_NORMALS"}
      [] mode = "DEPTH" -> {"COLOR_DEPTH"}
      [] mode = "WIREFRAME" -> {"COLOR_WIREFRAME"}
      [] mode = "UNLIT" -> {"COLOR_UNLIT"}

\* C40: the debug bits of the push constants are those of the current debug view mode:
\* none for OFF, exactly its own bit for NORMALS, DEPTH, WIREFRAME and UNLIT; at most
\* one of the four bits is set.
C40_DebugFlagsMatchViewMode ==
    /\ debugFlags \subseteq DebugFlagBits
    /\ debugFlags = ViewModeBits(debugFeatures.viewMode)
    /\ Cardinality(debugFlags) <= 1

\* handleDebugModes has taken the NORMALS view on RIGHT_CONTROL + 3 and consumed the
\* key, while the key of the DEPTH view is down as well.
C40_Witness ==
    /\ debugFeatures.viewMode = "NORMALS"
    /\ debugFlags = {"COLOR_NORMALS"}
    /\ "3" \in heldKeys
    /\ "3" \notin pressedKeys
    /\ "4" \in heldKeys

====
